---- MODULE Spec2Model ----
(***************************************************************************)
(* State-machine model of the OCR error analysis scripts:                  *)
(*   src/comprehensive_analyzer_FULL.py  ComprehensiveOCRAnalyzer          *)
(*   src/test_corrector.py               OCRCorrector                      *)
(*   src/full_analyzer.py                OCRErrorAnalyzer                  *)
(*                                                                         *)
(* Python values are modelled as follows.                                  *)
(*   None / an int      the empty tuple << >> / the one-element tuple <<n>>*)
(*   dict, defaultdict  a function whose DOMAIN is the set of keys present *)
(*   list               a sequence                                         *)
(*   str (text)         a sequence of one-character strings                *)
(*   float quotient a/b the exact fraction [n |-> a, d |-> b]; the rounding*)
(*                      of binary floating point is not modelled           *)
(***************************************************************************)
EXTENDS Integers, Sequences, FiniteSets, TLC

VARIABLES
    pc,          \* position of main/scan_all_files: idle, scanning, done, returned_early, crashed
    files,       \* all_ocr_files still to be visited by the loop of scan_all_files
    results,     \* ComprehensiveOCRAnalyzer.results
    folded,      \* history: the documents whose per-document update has run, in order
    batch,       \* history: the list find_all_ocr_files returned to this run
    skipped,     \* history: the places in batch of the files whose iteration raised
    pending_b,   \* second analyzer (order comparison): documents still to fold
    results_b,   \* second analyzer: its results
    folded_b,    \* second analyzer: history of folded documents
    year_in,     \* categorize_era: the argument
    era_out,     \* categorize_era: the returned label, or "(not called)"
    text,                 \* OCRCorrector.correct_text: the argument of the current call
    corrected,            \* correct_text: its local variable corrected
    corrections_applied,  \* OCRCorrector.corrections_applied
    corrections_log,      \* OCRCorrector.corrections_log
    cpc,                  \* position in correct_text: idle, or the loop about to run
    calls,                \* number of calls of correct_text that returned
    returned,             \* the value the last call returned
    trace,                \* history: the rules the loops of the current call visited
    filepath,             \* extract_metadata: the argument, [dirs, name]
    metadata,             \* extract_metadata: the returned dict, or None before the call
    a_text,               \* analyze_text: the argument text
    analysis,             \* analyze_text: the returned dict, or None before the call
    error_patterns,       \* results['error_patterns'] of the analyzer analyze_text is called on
    analyses,             \* number of calls of analyze_text that returned
    d_text,               \* OCRErrorAnalyzer.detect_common_errors: the argument text
    d_results,            \* OCRErrorAnalyzer.results: the two counters detect_common_errors writes
    d_words,              \* detect_common_errors: the list it returned
    d_pc,                 \* detect_common_errors: idle, or returned
    w_doc,                \* interleaved folds: the document each thread folds
    w_pc,                 \* interleaved folds: each thread's statement and phase (load or store)
    w_tmp,                \* interleaved folds: the value each thread loaded
    running,              \* interleaved folds: the thread that took the last step, 0 before
    preemptions,          \* interleaved folds: how often a thread was interrupted inside its fold
    first,                \* history: the thread that took the first step, 0 before
    overlapped            \* history: a thread took a step while the other was inside its fold

aggVars == <<pc, files, results, folded, batch, skipped>>
ordVars == <<pending_b, results_b, folded_b>>
eraVars == <<year_in, era_out>>
corVars == <<text, corrected, corrections_applied, corrections_log, cpc, calls, returned, trace>>
metaVars == <<filepath, metadata>>
anaVars == <<a_text, analysis, error_patterns, analyses>>
detVars == <<d_text, d_results, d_words, d_pc>>
raceVars == <<w_doc, w_pc, w_tmp, running, preemptions, first, overlapped>>
vars == <<pc, files, results, folded, batch, skipped, pending_b, results_b, folded_b, year_in, era_out,
          text, corrected, corrections_applied, corrections_log, cpc, calls, returned, trace,
          filepath, metadata, a_text, analysis, error_patterns, analyses,
          d_text, d_results, d_words, d_pc, w_doc, w_pc, w_tmp, running, preemptions,
          first, overlapped>>

----------------------------------------------------------------------------
(* Bounds of the model *)

MaxFiles == 3      \* longest list of files one scan visits
MaxPerm == 3       \* longest batch folded in two orders
NegYears == 3      \* categorize_era is tried on the years -NegYears..MaxYear
MaxYear == 2005
MaxTokens == 3     \* most tokens of a text given to correct_text
MaxCalls == 2      \* correct_text is called on a text, then on what it returned
MaxTextLen == 6    \* longest text over TextAlphabet given to analyze_text
MaxAnalyses == 2   \* analyze_text is called on a text, then on the same text again
MaxDirs == 3       \* most directories above the file given to extract_metadata
MaxWords == 3      \* most tokens of a text given to detect_common_errors
MaxPreemptions == 1   \* how often one of two threads is interrupted inside its loop body

----------------------------------------------------------------------------
(* Python helpers *)

None == << >>
Some(n) == <<n>>

\* Python truthiness of an optional int: None and 0 are falsy
Truthy(v) == v # None /\ v[1] # 0

Max(a, b) == IF a >= b THEN a ELSE b

\* a / b as an exact fraction
Quot(a, b) == [n |-> a, d |-> b]

RECURSIVE SumSeq(_)
SumSeq(s) == IF s = << >> THEN 0 ELSE Head(s) + SumSeq(Tail(s))

\* d[k] = v on a dict
DictSet(f, k, v) == [x \in DOMAIN f \cup {k} |-> IF x = k THEN v ELSE f[x]]

\* defaultdict lookup: the value under k, or the default factory's value
DictGet(f, k, default) == IF k \in DOMAIN f THEN f[k] ELSE default

EmptyDict == [x \in {} |-> 0]

SeqsUpTo(S, n) == UNION {[1..k -> S] : k \in 0..n}

----------------------------------------------------------------------------
(* Documents: the (metadata, analysis) pair the loop body of scan_all_files *)
(* works on.  Each pool entry is what extract_metadata and analyze_text     *)
(* return for the path and text named in its comment.                       *)

Doc(fn, yr, paper, res, dir, wc, cc, ch, wd, su) ==
    [filename |-> fn, year |-> yr, newspaper_code |-> paper, resolution |-> res,
     parent_directory |-> dir, word_count |-> wc, char_count |-> cc,
     errors_found |-> [character_level |-> ch, word_level |-> wd, suspicious |-> su]]

DocPool == {
    \* G:/2_KDNP_inprocess/kea/1828012501_300dpi/kea1828012501_ocr.txt, "tlie aud wliich"
    Doc("kea1828012501_ocr.txt", Some(1828), "kea", Some(300), "2_KDNP_inprocess", 3, 15, 6, 3, 0),
    \* G:/misc/ocr.txt, "" (empty text, no year, no resolution)
    Doc("ocr.txt", None, "ocr", None, "Other", 0, 0, 0, 0, 0),
    \* G:/7_NDNP_Batch/x_150dpi/abc0000_ocr.txt, "---" (year 0, no words, one suspicious run)
    Doc("abc0000_ocr.txt", Some(0), "abc", Some(150), "7_NDNP_Batch", 0, 3, 0, 0, 1),
    \* G:/2_KDNP_inprocess/kea/1828020101_300dpi/kea1828020101_ocr.txt, "the rnrnrn"
    Doc("kea1828020101_ocr.txt", Some(1828), "kea", Some(300), "2_KDNP_inprocess", 2, 10, 3, 0, 0),
    \* G:/3_KDNP_Ready/hen/hen1850010101_ocr.txt, "tbe 1aw" (no resolution in the path)
    Doc("hen1850010101_ocr.txt", Some(1850), "hen", None, "3_KDNP_Ready", 2, 7, 0, 1, 1)
}

\* sum(analysis['errors_found'].values())
ErrorSum(doc) ==
    doc.errors_found.character_level + doc.errors_found.word_level + doc.errors_found.suspicious

----------------------------------------------------------------------------
(* ComprehensiveOCRAnalyzer.__init__ *)

FreshResults ==
    [metadata |-> [total_files |-> 0, total_words |-> 0, total_characters |-> 0],
     error_patterns |-> [character_substitutions |-> 0, word_level_errors |-> 0,
                         suspicious_patterns |-> 0],
     by_era |-> EmptyDict,
     by_resolution |-> EmptyDict,
     by_directory |-> EmptyDict,
     by_newspaper |-> EmptyDict,
     statistics |-> EmptyDict]

ResolutionDefault == [files |-> 0, errors |-> 0, words |-> 0]
DirectoryDefault == [files |-> 0, words |-> 0, errors |-> 0]
NewspaperDefault ==
    [files |-> 0, years |-> {},
     errors |-> [character_level |-> 0, word_level |-> 0, suspicious |-> 0]]

----------------------------------------------------------------------------
(* ComprehensiveOCRAnalyzer.categorize_era *)

categorize_era(year) ==
    IF ~Truthy(year) THEN "Unknown"
    ELSE IF year[1] < 1850 THEN "1800-1849 (Early 19th C)"
    ELSE IF year[1] < 1875 THEN "1850-1874 (Mid 19th C)"
    ELSE IF year[1] < 1900 THEN "1875-1899 (Late 19th C)"
    ELSE IF year[1] < 1920 THEN "1900-1919 (WWI Era)"
    ELSE IF year[1] < 1940 THEN "1920-1939 (Interwar)"
    ELSE IF year[1] < 1960 THEN "1940-1959 (WWII-Postwar)"
    ELSE IF year[1] < 1980 THEN "1960-1979 (Modern)"
    ELSE "1980-2001 (Digital Era)"

----------------------------------------------------------------------------
(* The per-document update of scan_all_files (the body of its try block     *)
(* after the text was read), one operator per commented section of the code *)

\* analyze_text's writes to results['error_patterns'] (it runs before the update)
AnalyzeEffects(r, doc) ==
    [r EXCEPT
        !.error_patterns.character_substitutions = @ + doc.errors_found.character_level,
        !.error_patterns.word_level_errors = @ + doc.errors_found.word_level,
        !.error_patterns.suspicious_patterns = @ + doc.errors_found.suspicious]

UpdateGlobal_assign(r, doc) ==
    [r EXCEPT !.metadata.total_files = @ + 1,
              !.metadata.total_words = doc.word_count,
              !.metadata.total_characters = doc.char_count]

\* "Update global statistics"
UpdateGlobal(r, doc) ==
    [r EXCEPT !.metadata.total_files = @ + 1,
              !.metadata.total_words = @ + doc.word_count,
              !.metadata.total_characters = @ + doc.char_count]

UpdateDirectory_nowords(r, doc) ==
    LET k == doc.parent_directory
        b == DictGet(r.by_directory, k, DirectoryDefault)
    IN [r EXCEPT !.by_directory =
            DictSet(@, k, [b EXCEPT !.files = @ + 1, !.errors = @ + ErrorSum(doc)])]

\* "Update directory statistics"
UpdateDirectory(r, doc) ==
    LET k == doc.parent_directory
        b == DictGet(r.by_directory, k, DirectoryDefault)
    IN [r EXCEPT !.by_directory =
            DictSet(@, k, [b EXCEPT !.files = @ + 1,
                                    !.words = @ + doc.word_count,
                                    !.errors = @ + ErrorSum(doc)])]

\* the entry appended to by_era[era]['files']
EraFileEntry(doc) ==
    [filename |-> doc.filename, year |-> doc.year, newspaper |-> doc.newspaper_code,
     directory |-> doc.parent_directory, word_count |-> doc.word_count,
     errors |-> ErrorSum(doc)]

EraDefault == [files |-> << >>, total_words |-> 0, total_errors |-> 0]

\* "Update era statistics"
UpdateEra(r, doc) ==
    LET era == categorize_era(doc.year)
        b == DictGet(r.by_era, era, EraDefault)
    IN [r EXCEPT !.by_era =
            DictSet(@, era, [b EXCEPT !.files = Append(@, EraFileEntry(doc)),
                                      !.total_words = @ + doc.word_count,
                                      !.total_errors = @ + ErrorSum(doc)])]

\* f"{metadata['resolution']}dpi", keyed here by the number
ResKey(doc) == doc.resolution[1]

UpdateResolution_always(r, doc) ==
    LET k == IF Truthy(doc.resolution) THEN ResKey(doc) ELSE 0
        b == DictGet(r.by_resolution, k, ResolutionDefault)
    IN [r EXCEPT !.by_resolution =
            DictSet(@, k, [b EXCEPT !.files = @ + 1,
                                    !.words = @ + doc.word_count,
                                    !.errors = @ + ErrorSum(doc)])]

\* "Update resolution statistics": only when metadata['resolution'] is truthy
UpdateResolution(r, doc) ==
    IF Truthy(doc.resolution)
    THEN LET k == ResKey(doc)
             b == DictGet(r.by_resolution, k, ResolutionDefault)
         IN [r EXCEPT !.by_resolution =
                DictSet(@, k, [b EXCEPT !.files = @ + 1,
                                        !.words = @ + doc.word_count,
                                        !.errors = @ + ErrorSum(doc)])]
    ELSE r

\* "Update newspaper statistics"
UpdateNewspaper(r, doc) ==
    LET k == doc.newspaper_code
        b == DictGet(r.by_newspaper, k, NewspaperDefault)
    IN [r EXCEPT !.by_newspaper =
            DictSet(@, k,
                [b EXCEPT !.files = @ + 1,
                          !.years = IF Truthy(doc.year) THEN @ \cup {doc.year[1]} ELSE @,
                          !.errors.character_level = @ + doc.errors_found.character_level,
                          !.errors.word_level = @ + doc.errors_found.word_level,
                          !.errors.suspicious = @ + doc.errors_found.suspicious])]

\* one pass of the loop body for a document that was read: analyze, then update
Fold(r, doc) ==
    UpdateNewspaper(
        UpdateResolution(
            UpdateEra(
                UpdateDirectory(
                    UpdateGlobal(AnalyzeEffects(r, doc), doc), doc), doc), doc), doc)

----------------------------------------------------------------------------
(* ComprehensiveOCRAnalyzer.calculate_statistics *)

HasWords_ge(data) == data.total_words >= 0

\* the guard of the era loop: data['total_words'] > 0
HasWords(data) == data.total_words > 0

\* results['statistics'] = {...}
Statistics(r) ==
    [avg_words_per_file |-> Quot(r.metadata.total_words, Max(r.metadata.total_files, 1)),
     avg_chars_per_file |-> Quot(r.metadata.total_characters, Max(r.metadata.total_files, 1)),
     total_error_patterns |->
        [character_level |-> r.error_patterns.character_substitutions,
         word_level |-> r.error_patterns.word_level_errors,
         suspicious |-> r.error_patterns.suspicious_patterns],
     error_rates |->
        [char_error_rate |-> Quot(r.error_patterns.character_substitutions * 100,
                                  Max(r.metadata.total_characters, 1)),
         word_error_rate |-> Quot(r.error_patterns.word_level_errors * 100,
                                  Max(r.metadata.total_words, 1))]]

EraRates_global(r, data) ==
    [error_rate |-> Quot(data.total_errors * 100, r.metadata.total_words),
     avg_errors_per_file |-> Quot(data.total_errors, r.metadata.total_files)]

\* the two fields the era loop stores into a bucket
EraRates(r, data) ==
    [error_rate |-> Quot(data.total_errors * 100, data.total_words),
     avg_errors_per_file |-> Quot(data.total_errors, Len(data.files))]

\* a division of the era loop divides by zero: Python raises ZeroDivisionError
DivisionRaises(r) ==
    \E era \in DOMAIN r.by_era :
        /\ HasWords(r.by_era[era])
        /\ \/ EraRates(r, r.by_era[era]).error_rate.d = 0
           \/ EraRates(r, r.by_era[era]).avg_errors_per_file.d = 0

\* the results after calculate_statistics ran to its end
calculate_statistics(r) ==
    [r EXCEPT
        !.statistics = Statistics(r),
        !.by_era = [era \in DOMAIN r.by_era |->
                        IF HasWords(r.by_era[era])
                        THEN EraRates(r, r.by_era[era]) @@ r.by_era[era]
                        ELSE r.by_era[era]]]

----------------------------------------------------------------------------
(* main -> scan_all_files *)

\* the analyzer as __init__ leaves it, before main calls scan_all_files
AnalyzerIdle ==
    /\ pc = "idle"
    /\ files = << >>
    /\ results = FreshResults
    /\ folded = << >>
    /\ batch = << >>
    /\ skipped = << >>

\* no second analyzer at work
SecondIdle ==
    /\ pending_b = << >>
    /\ results_b = FreshResults
    /\ folded_b = << >>

\* categorize_era not called
EraIdle ==
    /\ year_in = None
    /\ era_out = "(not called)"

\* OCRCorrector.__init__: no correction applied, an empty log
CorrectorIdle ==
    /\ text = << >>
    /\ corrected = << >>
    /\ corrections_applied = 0
    /\ corrections_log = << >>
    /\ cpc = "idle"
    /\ calls = 0
    /\ returned = << >>
    /\ trace = << >>

\* extract_metadata not called
MetadataIdle ==
    /\ filepath = [dirs |-> << >>, name |-> << >>]
    /\ metadata = None

\* analyze_text not called: the counters of results['error_patterns'] are empty
AnalysisIdle ==
    /\ a_text = << >>
    /\ analysis = None
    /\ error_patterns = [character_substitutions |-> EmptyDict,
                         word_level_errors |-> EmptyDict,
                         suspicious_patterns |-> EmptyDict]
    /\ analyses = 0

\* OCRErrorAnalyzer.__init__: empty counters, detect_common_errors not called
DetectIdle ==
    /\ d_text = << >>
    /\ d_results = [common_word_errors |-> EmptyDict, suspicious_patterns |-> EmptyDict]
    /\ d_words = << >>
    /\ d_pc = "idle"

\* no thread folds
RaceIdle ==
    /\ w_doc = << >>
    /\ w_pc = << >>
    /\ w_tmp = << >>
    /\ running = 0
    /\ preemptions = 0
    /\ first = 0
    /\ overlapped = FALSE

Init == AnalyzerIdle /\ SecondIdle /\ EraIdle /\ CorrectorIdle /\ MetadataIdle /\ AnalysisIdle
        /\ DetectIdle /\ RaceIdle

\* find_all_ocr_files returned a list; an empty one makes scan_all_files return
ScanStart ==
    /\ pc = "idle"
    /\ \E fs \in SeqsUpTo(DocPool, MaxFiles) :
        /\ files' = fs
        /\ batch' = fs
        /\ pc' = IF fs = << >> THEN "returned_early" ELSE "scanning"
    /\ UNCHANGED <<results, folded, skipped>>
    /\ UNCHANGED ordVars /\ UNCHANGED eraVars /\ UNCHANGED corVars
    /\ UNCHANGED metaVars /\ UNCHANGED anaVars
    /\ UNCHANGED detVars /\ UNCHANGED raceVars

\* one iteration of the loop whose file was read and analyzed
ProcessFile ==
    /\ pc = "scanning"
    /\ files # << >>
    /\ results' = Fold(results, Head(files))
    /\ folded' = Append(folded, Head(files))
    /\ files' = Tail(files)
    /\ pc' = pc
    /\ UNCHANGED <<batch, skipped>>
    /\ UNCHANGED ordVars /\ UNCHANGED eraVars /\ UNCHANGED corVars
    /\ UNCHANGED metaVars /\ UNCHANGED anaVars
    /\ UNCHANGED detVars /\ UNCHANGED raceVars

ProcessFileFails_aborts ==
    /\ pc = "scanning"
    /\ files # << >>
    /\ files' = << >>
    /\ skipped' = Append(skipped, Len(batch) - Len(files) + 1)
    /\ UNCHANGED <<pc, results, folded, batch>>
    /\ UNCHANGED ordVars /\ UNCHANGED eraVars /\ UNCHANGED corVars
    /\ UNCHANGED metaVars /\ UNCHANGED anaVars
    /\ UNCHANGED detVars /\ UNCHANGED raceVars

\* one iteration whose open()/read() raised: the except clause prints and goes on
ProcessFileFails ==
    /\ pc = "scanning"
    /\ files # << >>
    /\ files' = Tail(files)
    /\ skipped' = Append(skipped, Len(batch) - Len(files) + 1)
    /\ UNCHANGED <<pc, results, folded, batch>>
    /\ UNCHANGED ordVars /\ UNCHANGED eraVars /\ UNCHANGED corVars
    /\ UNCHANGED metaVars /\ UNCHANGED anaVars
    /\ UNCHANGED detVars /\ UNCHANGED raceVars

Finish_early ==
    /\ pc = "scanning"
    /\ IF DivisionRaises(results)
       THEN /\ pc' = "crashed"
            /\ results' = [results EXCEPT !.statistics = Statistics(results)]
       ELSE /\ pc' = "done"
            /\ results' = calculate_statistics(results)
    /\ UNCHANGED <<files, folded, batch, skipped>>
    /\ UNCHANGED ordVars /\ UNCHANGED eraVars /\ UNCHANGED corVars
    /\ UNCHANGED metaVars /\ UNCHANGED anaVars
    /\ UNCHANGED detVars /\ UNCHANGED raceVars

\* the loop is over: self.calculate_statistics(), then scan_all_files returns
Finish ==
    /\ pc = "scanning"
    /\ files = << >>
    /\ IF DivisionRaises(results)
       THEN /\ pc' = "crashed"
            /\ results' = [results EXCEPT !.statistics = Statistics(results)]
       ELSE /\ pc' = "done"
            /\ results' = calculate_statistics(results)
    /\ UNCHANGED <<files, folded, batch, skipped>>
    /\ UNCHANGED ordVars /\ UNCHANGED eraVars /\ UNCHANGED corVars
    /\ UNCHANGED metaVars /\ UNCHANGED anaVars
    /\ UNCHANGED detVars /\ UNCHANGED raceVars

Next == ScanStart \/ ProcessFile \/ ProcessFileFails \/ Finish

Spec == Init /\ [][Next]_vars

----------------------------------------------------------------------------
(* Two analyzers fold the same batch, the second in a permuted order *)

Perms(n) == {p \in [1..n -> 1..n] : \A i, j \in 1..n : p[i] = p[j] => i = j}

InitOrder ==
    /\ pc = "scanning"
    /\ \E s \in SeqsUpTo(DocPool, MaxPerm) : \E p \in Perms(Len(s)) :
        /\ files = s
        /\ batch = s
        /\ pending_b = [i \in 1..Len(s) |-> s[p[i]]]
    /\ results = FreshResults
    /\ folded = << >>
    /\ skipped = << >>
    /\ results_b = FreshResults
    /\ folded_b = << >>
    /\ EraIdle /\ CorrectorIdle /\ MetadataIdle /\ AnalysisIdle
    /\ DetectIdle /\ RaceIdle

\* the first analyzer's loop body
FoldFirst ==
    /\ files # << >>
    /\ results' = Fold(results, Head(files))
    /\ folded' = Append(folded, Head(files))
    /\ files' = Tail(files)
    /\ UNCHANGED <<pc, batch, skipped>> /\ UNCHANGED ordVars /\ UNCHANGED eraVars /\ UNCHANGED corVars
    /\ UNCHANGED metaVars /\ UNCHANGED anaVars
    /\ UNCHANGED detVars /\ UNCHANGED raceVars

\* the second, fresh analyzer's loop body, run after the first one's loop
FoldSecond ==
    /\ files = << >>
    /\ pending_b # << >>
    /\ results_b' = Fold(results_b, Head(pending_b))
    /\ folded_b' = Append(folded_b, Head(pending_b))
    /\ pending_b' = Tail(pending_b)
    /\ UNCHANGED aggVars /\ UNCHANGED eraVars /\ UNCHANGED corVars
    /\ UNCHANGED metaVars /\ UNCHANGED anaVars
    /\ UNCHANGED detVars /\ UNCHANGED raceVars

NextOrder == FoldFirst \/ FoldSecond

SpecOrder == InitOrder /\ [][NextOrder]_vars

----------------------------------------------------------------------------
(* categorize_era applied to one argument *)

YearInputs == {None} \cup {Some(y) : y \in (0 - NegYears)..MaxYear}

InitEra ==
    /\ AnalyzerIdle /\ SecondIdle /\ CorrectorIdle /\ MetadataIdle /\ AnalysisIdle
    /\ year_in \in YearInputs
    /\ era_out = "(not called)"
    /\ DetectIdle /\ RaceIdle

CallCategorizeEra ==
    /\ era_out = "(not called)"
    /\ era_out' = categorize_era(year_in)
    /\ UNCHANGED year_in /\ UNCHANGED aggVars /\ UNCHANGED ordVars /\ UNCHANGED corVars
    /\ UNCHANGED metaVars /\ UNCHANGED anaVars
    /\ UNCHANGED detVars /\ UNCHANGED raceVars

NextEra == CallCategorizeEra

SpecEra == InitEra /\ [][NextEra]_vars

----------------------------------------------------------------------------
(* Helpers of the properties *)

\* the sum of val(d) over the documents d of a history
SumDocs(ds, val(_)) == SumSeq([i \in 1..Len(ds) |-> val(ds[i])])

\* the sum of val(f[k]) over the keys of a dict
SumBuckets(f, val(_)) ==
    LET RECURSIVE S(_)
        S(K) == IF K = {} THEN 0
                ELSE LET k == CHOOSE x \in K : TRUE IN val(f[k]) + S(K \ {k})
    IN S(DOMAIN f)

WordCount(d) == d.word_count
CharLevel(d) == d.errors_found.character_level
WordLevel(d) == d.errors_found.word_level
Suspicious(d) == d.errors_found.suspicious

\* the documents of the history that the update assigns to a bucket
InEra(ds, era) == SelectSeq(ds, LAMBDA d : categorize_era(d.year) = era)
InResolution(ds, k) == SelectSeq(ds, LAMBDA d : Truthy(d.resolution) /\ d.resolution[1] = k)
InDirectory(ds, k) == SelectSeq(ds, LAMBDA d : d.parent_directory = k)
InNewspaper(ds, k) == SelectSeq(ds, LAMBDA d : d.newspaper_code = k)

Range(s) == {s[i] : i \in 1..Len(s)}

----------------------------------------------------------------------------
(* C1: after any sequence of per-document updates, every numeric total of   *)
(* every bucket of by_era, by_resolution, by_directory and by_newspaper is  *)
(* the count or the sum of the per-document values of exactly the documents *)
(* assigned to that bucket, and a bucket exists exactly for the keys some   *)
(* folded document has.                                                     *)
C1_BucketTotalsAreSums ==
    /\ DOMAIN results.by_era = {categorize_era(d.year) : d \in Range(folded)}
    /\ \A era \in DOMAIN results.by_era :
        LET b == results.by_era[era]
            ds == InEra(folded, era)
        IN /\ Len(b.files) = Len(ds)
           /\ b.total_words = SumDocs(ds, WordCount)
           /\ b.total_errors = SumDocs(ds, ErrorSum)
    /\ DOMAIN results.by_resolution =
          {d.resolution[1] : d \in {x \in Range(folded) : Truthy(x.resolution)}}
    /\ \A k \in DOMAIN results.by_resolution :
        LET b == results.by_resolution[k]
            ds == InResolution(folded, k)
        IN /\ b.files = Len(ds)
           /\ b.words = SumDocs(ds, WordCount)
           /\ b.errors = SumDocs(ds, ErrorSum)
    /\ DOMAIN results.by_directory = {d.parent_directory : d \in Range(folded)}
    /\ \A k \in DOMAIN results.by_directory :
        LET b == results.by_directory[k]
            ds == InDirectory(folded, k)
        IN /\ b.files = Len(ds)
           /\ b.words = SumDocs(ds, WordCount)
           /\ b.errors = SumDocs(ds, ErrorSum)
    /\ DOMAIN results.by_newspaper = {d.newspaper_code : d \in Range(folded)}
    /\ \A k \in DOMAIN results.by_newspaper :
        LET b == results.by_newspaper[k]
            ds == InNewspaper(folded, k)
        IN /\ b.files = Len(ds)
           /\ b.errors.character_level = SumDocs(ds, CharLevel)
           /\ b.errors.word_level = SumDocs(ds, WordLevel)
           /\ b.errors.suspicious = SumDocs(ds, Suspicious)

\* three documents were folded, two of them into the same buckets
C1_Witness ==
    /\ Len(folded) = MaxFiles
    /\ "kea" \in DOMAIN results.by_newspaper
    /\ results.by_newspaper["kea"].files = 2
    /\ results.by_directory["2_KDNP_inprocess"].words = 5
    /\ Cardinality(DOMAIN results.by_era) = 2

----------------------------------------------------------------------------
(* C2: folding the same documents in two orders gives identical file, word  *)
(* and error totals in every bucket of every grouping and identical global  *)
(* totals.                                                                  *)

\* the totals of an analyzer, without what depends on the order by nature
\* (the order of the entries of by_era[era]['files'])
Totals(r) ==
    [metadata |-> r.metadata,
     by_era |-> [era \in DOMAIN r.by_era |->
                    [files |-> Len(r.by_era[era].files),
                     total_words |-> r.by_era[era].total_words,
                     total_errors |-> r.by_era[era].total_errors]],
     by_resolution |-> r.by_resolution,
     by_directory |-> r.by_directory,
     by_newspaper |-> [k \in DOMAIN r.by_newspaper |->
                    [files |-> r.by_newspaper[k].files,
                     errors |-> r.by_newspaper[k].errors]]]

\* two histories hold the same documents the same number of times
SameDocs(s, t) ==
    \A d \in DocPool :
        Len(SelectSeq(s, LAMBDA x : x = d)) = Len(SelectSeq(t, LAMBDA x : x = d))

C2_FoldOrderIndependent ==
    SameDocs(folded, folded_b) => Totals(results) = Totals(results_b)

\* both analyzers folded the same three documents, in different orders
C2_Witness ==
    /\ Len(folded) = MaxPerm
    /\ SameDocs(folded, folded_b)
    /\ folded # folded_b
    /\ Cardinality(Range(folded)) = MaxPerm

----------------------------------------------------------------------------
(* C3 (as amended): each update adds one file to exactly one bucket of the  *)
(* era, directory and newspaper groupings, so in each of these the bucket   *)
(* file counts sum to total_files, the number of documents folded (a        *)
(* document without a year goes to the era bucket "Unknown"); in the        *)
(* resolution grouping a document without a resolution is counted in no     *)
(* bucket, so the file counts sum to the number of folded documents that    *)
(* have a resolution.                                                       *)

EraFiles(b) == Len(b.files)
BucketFiles(b) == b.files

C3_FileCountsPerGrouping ==
    /\ results.metadata.total_files = Len(folded)
    /\ SumBuckets(results.by_era, EraFiles) = results.metadata.total_files
    /\ SumBuckets(results.by_directory, BucketFiles) = results.metadata.total_files
    /\ SumBuckets(results.by_newspaper, BucketFiles) = results.metadata.total_files
    /\ SumBuckets(results.by_resolution, BucketFiles)
          = Len(SelectSeq(folded, LAMBDA d : Truthy(d.resolution)))

\* C3 as stated: in each of the four groupings, also for documents without
\* a resolution, the bucket file counts sum to total_files
C3_Original ==
    /\ SumBuckets(results.by_era, EraFiles) = results.metadata.total_files
    /\ SumBuckets(results.by_directory, BucketFiles) = results.metadata.total_files
    /\ SumBuckets(results.by_newspaper, BucketFiles) = results.metadata.total_files
    /\ SumBuckets(results.by_resolution, BucketFiles) = results.metadata.total_files

\* documents with and without a year and a resolution were folded
C3_Witness ==
    /\ Len(folded) = MaxFiles
    /\ \E i, j \in 1..Len(folded) :
        /\ folded[i].resolution = None /\ folded[i].year = None
        /\ folded[j].resolution # None /\ folded[j].year # None
    /\ SumBuckets(results.by_resolution, BucketFiles) < results.metadata.total_files

----------------------------------------------------------------------------
(* C4 (as amended): calculate_statistics never raises a division error, and *)
(* after it every by_era bucket whose word total is zero has neither        *)
(* error_rate nor avg_errors_per_file (the fields are left unset, not set to*)
(* zero), for any sequence of folded documents, empty texts included.       *)
C4_ZeroWordBucketsLeftUnset ==
    /\ pc # "crashed"
    /\ pc = "done" =>
        \A era \in DOMAIN results.by_era :
            results.by_era[era].total_words = 0 =>
                /\ "error_rate" \notin DOMAIN results.by_era[era]
                /\ "avg_errors_per_file" \notin DOMAIN results.by_era[era]

\* C4 as stated: after finalize every bucket with a zero word total has both
\* fields present with the value zero
C4_Original ==
    pc = "done" =>
        \A era \in DOMAIN results.by_era :
            results.by_era[era].total_words = 0 =>
                /\ "error_rate" \in DOMAIN results.by_era[era]
                /\ results.by_era[era].error_rate.n = 0
                /\ "avg_errors_per_file" \in DOMAIN results.by_era[era]
                /\ results.by_era[era].avg_errors_per_file.n = 0

\* finalize ran over a zero-word bucket that holds an error, beside one with words
C4_Witness ==
    /\ pc = "done"
    /\ \E e1, e2 \in DOMAIN results.by_era :
        /\ results.by_era[e1].total_words = 0
        /\ results.by_era[e1].total_errors > 0
        /\ results.by_era[e2].total_words > 0

----------------------------------------------------------------------------
(* C5 (as amended): after calculate_statistics every by_era bucket with a   *)
(* word total > 0 carries error_rate = total_errors / total_words * 100 and *)
(* avg_errors_per_file = total_errors / len(files), worked out from the     *)
(* final totals (as quotients: error_rate * total_words = total_errors * 100*)
(* and avg_errors_per_file * len(files) = total_errors hold up to the       *)
(* rounding of the floating-point division); the buckets of by_resolution,  *)
(* by_directory and by_newspaper carry neither field.                       *)

DerivedFields == {"error_rate", "avg_errors_per_file"}

C5_EraRatesFromFinalTotals ==
    pc = "done" =>
        /\ \A era \in DOMAIN results.by_era :
            LET b == results.by_era[era] IN
            b.total_words > 0 =>
                /\ DerivedFields \subseteq DOMAIN b
                /\ b.error_rate.d # 0
                /\ b.error_rate.n * b.total_words = b.total_errors * 100 * b.error_rate.d
                /\ b.avg_errors_per_file.d # 0
                /\ b.avg_errors_per_file.n * Len(b.files)
                      = b.total_errors * b.avg_errors_per_file.d
        /\ \A k \in DOMAIN results.by_resolution :
            DOMAIN results.by_resolution[k] \cap DerivedFields = {}
        /\ \A k \in DOMAIN results.by_directory :
            DOMAIN results.by_directory[k] \cap DerivedFields = {}
        /\ \A k \in DOMAIN results.by_newspaper :
            DOMAIN results.by_newspaper[k] \cap DerivedFields = {}

\* C5 as stated: after finalize the buckets with words of every grouping carry
\* both fields
C5_Original ==
    pc = "done" =>
        /\ \A era \in DOMAIN results.by_era :
            results.by_era[era].total_words > 0 =>
                DerivedFields \subseteq DOMAIN results.by_era[era]
        /\ \A k \in DOMAIN results.by_resolution :
            results.by_resolution[k].words > 0 =>
                DerivedFields \subseteq DOMAIN results.by_resolution[k]
        /\ \A k \in DOMAIN results.by_directory :
            results.by_directory[k].words > 0 =>
                DerivedFields \subseteq DOMAIN results.by_directory[k]

\* finalize ran over two era buckets with words and errors
C5_Witness ==
    /\ pc = "done"
    /\ \E e1, e2 \in DOMAIN results.by_era :
        /\ e1 # e2
        /\ results.by_era[e1].total_words > 0 /\ results.by_era[e1].total_errors > 0
        /\ results.by_era[e2].total_words > 0 /\ results.by_era[e2].total_errors > 0
        /\ Len(results.by_era[e1].files) = 2

----------------------------------------------------------------------------
(* C6: categorize_era returns, for every integer year (0, negative years and*)
(* years above 2001 included), the label of the range of the partition      *)
(* <1850, 1850-1874, 1875-1899, 1900-1919, 1920-1939, 1940-1959, 1960-1979, *)
(* 1980-2001 that holds it, a boundary year falling in the upper range, and *)
(* returns 'Unknown' if and only if the year is absent.                     *)

\* the partition of the claim, the first range open below, the last open above
CanonicalEra(year) ==
    IF year = None THEN "Unknown"
    ELSE IF year[1] < 1850 THEN "1800-1849 (Early 19th C)"
    ELSE IF year[1] < 1875 THEN "1850-1874 (Mid 19th C)"
    ELSE IF year[1] < 1900 THEN "1875-1899 (Late 19th C)"
    ELSE IF year[1] < 1920 THEN "1900-1919 (WWI Era)"
    ELSE IF year[1] < 1940 THEN "1920-1939 (Interwar)"
    ELSE IF year[1] < 1960 THEN "1940-1959 (WWII-Postwar)"
    ELSE IF year[1] < 1980 THEN "1960-1979 (Modern)"
    ELSE "1980-2001 (Digital Era)"

C6_EraPartitionTotal ==
    era_out # "(not called)" =>
        /\ era_out = CanonicalEra(year_in)
        /\ (era_out = "Unknown" <=> year_in = None)

----------------------------------------------------------------------------
(* OCRCorrector: characters and the regular expressions of correct_text.    *)
(* A text is a sequence of one-character strings over ASCII letters, digits,*)
(* "_", "-", "." and white space.                                           *)

Lowers == <<"a", "b", "c", "d", "e", "f", "g", "h", "i", "j", "k", "l", "m",
            "n", "o", "p", "q", "r", "s", "t", "u", "v", "w", "x", "y", "z">>
Uppers == <<"A", "B", "C", "D", "E", "F", "G", "H", "I", "J", "K", "L", "M",
            "N", "O", "P", "Q", "R", "S", "T", "U", "V", "W", "X", "Y", "Z">>
Lowercase == {Lowers[i] : i \in 1..Len(Lowers)}
Uppercase == {Uppers[i] : i \in 1..Len(Uppers)}
Digits == {"0", "1", "2", "3", "4", "5", "6", "7", "8", "9"}

\* \w
WordChars == Lowercase \cup Uppercase \cup Digits \cup {"_"}
\* \s
Whitespace == {" ", "\n", "\t", "\r"}

\* the case folding of re.IGNORECASE
LowerOf == [c \in Uppercase |-> Lowers[CHOOSE i \in 1..Len(Uppers) : Uppers[i] = c]]
ToLower(c) == IF c \in Uppercase THEN LowerOf[c] ELSE c

IsWordAt(t, i) == i >= 1 /\ i <= Len(t) /\ t[i] \in WordChars

\* \b between the characters i and i+1 of t (i = 0: the start, i = Len(t): the end)
Boundary(t, i) == IsWordAt(t, i) # IsWordAt(t, i + 1)

----------------------------------------------------------------------------
(* OCRCorrector.__init__: the rule tables *)

Rule(wrong, correct) == [kind |-> "word", wrong |-> wrong, correct |-> correct]

\* self.word_corrections, in the order a dict iterates: the order of first
\* insertion ('fiieids' is written twice in the literal and kept once)
word_corrections == <<
    Rule(<<"t", "l", "i", "e">>, <<"t", "h", "e">>),
    Rule(<<"i", "l", "i", "e">>, <<"t", "h", "e">>),
    Rule(<<"t", "b", "e">>, <<"t", "h", "e">>),
    Rule(<<"t", "h", "o">>, <<"t", "h", "e">>),
    Rule(<<"t", "l", "i", "a", "t">>, <<"t", "h", "a", "t">>),
    Rule(<<"t", "b", "a", "t">>, <<"t", "h", "a", "t">>),
    Rule(<<"t", "l", "i", "e", "n">>, <<"t", "h", "e", "n">>),
    Rule(<<"t", "l", "i", "i", "s">>, <<"t", "h", "i", "s">>),
    Rule(<<"t", "l", "i", "e", "s", "e">>, <<"t", "h", "e", "s", "e">>),
    Rule(<<"t", "l", "i", "o", "s", "e">>, <<"t", "h", "o", "s", "e">>),
    Rule(<<"t", "l", "i", "e", "y">>, <<"t", "h", "e", "y">>),
    Rule(<<"t", "l", "i", "e", "r", "e">>, <<"t", "h", "e", "r", "e">>),
    Rule(<<"t", "l", "i", "e", "m">>, <<"t", "h", "e", "m">>),
    Rule(<<"t", "l", "i", "e", "i", "r">>, <<"t", "h", "e", "i", "r">>),
    Rule(<<"t", "l", "i", "u", "s">>, <<"t", "h", "u", "s">>),
    Rule(<<"t", "l", "i", "r", "e", "e">>, <<"t", "h", "r", "e", "e">>),
    Rule(<<"t", "l", "i", "a", "n">>, <<"t", "h", "a", "n">>),
    Rule(<<"t", "l", "i", "r", "o", "u", "g", "h">>, <<"t", "h", "r", "o", "u", "g", "h">>),
    Rule(<<"w", "l", "i", "i", "c", "h">>, <<"w", "h", "i", "c", "h">>),
    Rule(<<"w", "l", "i", "e", "n">>, <<"w", "h", "e", "n">>),
    Rule(<<"w", "l", "i", "e", "r", "e">>, <<"w", "h", "e", "r", "e">>),
    Rule(<<"w", "l", "i", "i", "l", "e">>, <<"w", "h", "i", "l", "e">>),
    Rule(<<"w", "l", "i", "i", "t", "e">>, <<"w", "h", "i", "t", "e">>),
    Rule(<<"w", "l", "i", "o">>, <<"w", "h", "o">>),
    Rule(<<"w", "l", "i", "o", "l", "e">>, <<"w", "h", "o", "l", "e">>),
    Rule(<<"w", "l", "i", "a", "t">>, <<"w", "h", "a", "t">>),
    Rule(<<"w", "l", "i", "y">>, <<"w", "h", "y">>),
    Rule(<<"l", "i", "a", "v", "e">>, <<"h", "a", "v", "e">>),
    Rule(<<"l", "i", "a", "d">>, <<"h", "a", "d">>),
    Rule(<<"l", "i", "i", "s">>, <<"h", "i", "s">>),
    Rule(<<"l", "i", "e", "r">>, <<"h", "e", "r">>),
    Rule(<<"l", "i", "i", "m">>, <<"h", "i", "m">>),
    Rule(<<"l", "i", "o", "w">>, <<"h", "o", "w">>),
    Rule(<<"l", "i", "e", "r", "e">>, <<"h", "e", "r", "e">>),
    Rule(<<"l", "i", "a", "n", "d">>, <<"h", "a", "n", "d">>),
    Rule(<<"l", "i", "o", "u", "s", "e">>, <<"h", "o", "u", "s", "e">>),
    Rule(<<"l", "i", "e", "a", "r", "t">>, <<"h", "e", "a", "r", "t">>),
    Rule(<<"l", "i", "e", "a", "d">>, <<"h", "e", "a", "d">>),
    Rule(<<"l", "i", "i", "g", "h">>, <<"h", "i", "g", "h">>),
    Rule(<<"w", "i", "t", "l", "i">>, <<"w", "i", "t", "h">>),
    Rule(<<"w", "l", "t", "l", "i">>, <<"w", "i", "t", "h">>),
    Rule(<<"w", "i", "t", "b">>, <<"w", "i", "t", "h">>),
    Rule(<<"a", "u", "d">>, <<"a", "n", "d">>),
    Rule(<<"a", "a", "d">>, <<"a", "n", "d">>),
    Rule(<<"a", "n", "i">>, <<"a", "n", "d">>),
    Rule(<<"a", "n", "c">>, <<"a", "n", "d">>),
    Rule(<<"f", "i", "o", "m">>, <<"f", "r", "o", "m">>),
    Rule(<<"f", "r", "o", "r", "n">>, <<"f", "r", "o", "m">>),
    Rule(<<"f", "r", "o">>, <<"f", "r", "o", "m">>),
    Rule(<<"f", "i", "i", "e", "i", "d", "s">>, <<"f", "r", "i", "e", "n", "d", "s">>),
    Rule(<<"f", "i", "r", "i", "e", "n", "d">>, <<"f", "r", "i", "e", "n", "d">>),
    Rule(<<"f", "i", "i", "e", "n", "d">>, <<"f", "r", "i", "e", "n", "d">>),
    Rule(<<"t", "b", "s", "e", "r", "v", "e", "d">>, <<"o", "b", "s", "e", "r", "v", "e", "d">>),
    Rule(<<"l", "o", "u", "b", "t", "e", "d">>, <<"d", "o", "u", "b", "t", "e", "d">>),
    Rule(<<"p", "r", "o", "b", "f">>, <<"p", "r", "o", "o", "f">>),
    Rule(<<"w", "o", "i", "f", "e", "t">>, <<"w", "o", "r", "s", "t">>),
    Rule(<<"r", "u", "o", "n", "g">>, <<"w", "r", "o", "n", "g">>),
    Rule(<<"w", "a", "g">>, <<"w", "a", "s">>),
    Rule(<<"i", "o">>, <<"t", "o">>),
    Rule(<<"o", "d">>, <<"o", "f">>),
    Rule(<<"a", "i">>, <<"a", "t">>),
    Rule(<<"i", "u">>, <<"i", "n">>),
    Rule(<<"o", "u", "e">>, <<"o", "n", "e">>),
    Rule(<<"c", "a", "u">>, <<"c", "a", "n">>),
    Rule(<<"r", "n", "a", "y">>, <<"m", "a", "y">>),
    Rule(<<"r", "n", "y">>, <<"m", "y">>),
    Rule(<<"o", "w", "u">>, <<"o", "w", "n">>),
    Rule(<<"u", "o", "w">>, <<"n", "o", "w">>),
    Rule(<<"o", "u", "l", "y">>, <<"o", "n", "l", "y">>),
    Rule(<<"i", "u", "s", "t", "e", "a", "d">>, <<"i", "n", "s", "t", "e", "a", "d">>),
    Rule(<<"u", "p", "o", "u">>, <<"u", "p", "o", "n">>),
    Rule(<<"r", "n", "a", "n">>, <<"m", "a", "n">>),
    Rule(<<"r", "a", "e", "n">>, <<"m", "e", "n">>),
    Rule(<<"r", "n", "o", "r", "e">>, <<"m", "o", "r", "e">>),
    Rule(<<"r", "n", "u", "s", "t">>, <<"m", "u", "s", "t">>),
    Rule(<<"r", "n", "a", "k", "e">>, <<"m", "a", "k", "e">>),
    Rule(<<"r", "n", "a", "n", "y">>, <<"m", "a", "n", "y">>),
    Rule(<<"t", "i", "r", "n", "e">>, <<"t", "i", "m", "e">>),
    Rule(<<"s", "o", "r", "n", "e">>, <<"s", "o", "m", "e">>),
    Rule(<<"c", "o", "r", "n", "e">>, <<"c", "o", "m", "e">>),
    Rule(<<"b", "e", "c", "o", "r", "n", "e">>, <<"b", "e", "c", "o", "m", "e">>),
    Rule(<<"h", "o", "r", "n", "e">>, <<"h", "o", "m", "e">>),
    Rule(<<"n", "a", "r", "n", "e">>, <<"n", "a", "m", "e">>),
    Rule(<<"s", "a", "r", "n", "e">>, <<"s", "a", "m", "e">>),
    Rule(<<"d", "e", "t", "e", "r", "r", "n", "i", "n", "e">>, <<"d", "e", "t", "e", "r", "m", "i", "n", "e">>),
    Rule(<<"d", "e", "t", "e", "r", "r", "n", "i", "n", "e", "d">>, <<"d", "e", "t", "e", "r", "m", "i", "n", "e", "d">>),
    Rule(<<"g", "o", "v", "e", "n", "r", "m", "e", "n", "t">>, <<"g", "o", "v", "e", "r", "n", "m", "e", "n", "t">>),
    Rule(<<"g", "o", "v", "e", "m", "m", "e", "n", "t">>, <<"g", "o", "v", "e", "r", "n", "m", "e", "n", "t">>),
    Rule(<<"g", "o", "v", "e", "r", "m", "n", "e", "n", "t">>, <<"g", "o", "v", "e", "r", "n", "m", "e", "n", "t">>),
    Rule(<<"c", "o", "r", "n", "m", "i", "t", "t", "e", "e">>, <<"c", "o", "m", "m", "i", "t", "t", "e", "e">>),
    Rule(<<"c", "o", "r", "n", "m", "o", "n">>, <<"c", "o", "m", "m", "o", "n">>),
    Rule(<<"r", "a", "a", "d", "e">>, <<"m", "a", "d", "e">>),
    Rule(<<"r", "a", "i", "g", "h", "t">>, <<"m", "i", "g", "h", "t">>),
    Rule(<<"e", "l", "e", "c", "t", "e", "a">>, <<"e", "l", "e", "c", "t", "e", "d">>),
    Rule(<<"a", "c", "c", "c", "l", "e">>, <<"a", "c", "c", "e", "d", "e">>),
    Rule(<<"w", "f", "f", "i", "c", "b">>, <<"w", "h", "i", "c", "h">>),
    Rule(<<"d", "e", "n", ".", "e", "e">>, <<"d", "e", "f", "e", "n", "c", "e">>),
    Rule(<<"b", "o", "l", "d", "y">>, <<"b", "o", "l", "d", "l", "y">>)
>>

\* self.char_patterns, in list order
char_patterns == <<
    [kind |-> "AI"],          \* (r'\bAI([a-z])', r'M\1')
    [kind |-> "digit1"],      \* (r'\b([A-Z])1([a-z])', r'\1I\2')
    [kind |-> "spaces"],      \* (r'  +', ' ')
    [kind |-> "linebreak"]    \* (r'(\w)-\s*\n\s*(\w)', r'\1\2')
>>

----------------------------------------------------------------------------
(* re.findall / re.sub: leftmost, non-overlapping matches, left to right *)

\* the end of the longest run of characters of S that starts at p (p - 1 if none)
RECURSIVE RunEnd(_, _, _)
RunEnd(t, p, S) == IF p <= Len(t) /\ t[p] \in S THEN RunEnd(t, p + 1, S) ELSE p - 1

\* the length of the match of the rule's pattern that starts at p, 0 if none
\* (no pattern below matches the empty string, and none has two matches of
\* different lengths at one place)
MatchLen(rule, t, p) ==
    CASE rule.kind = "word" ->
            \* r'\b' + re.escape(wrong) + r'\b', re.IGNORECASE
            \* (the first character is compared on its own, as written and
            \* then case-folded, before the rest of the word is looked at)
            LET n == Len(rule.wrong) IN
            IF /\ (t[p] = rule.wrong[1] \/ ToLower(t[p]) = rule.wrong[1])
               /\ p + n - 1 <= Len(t)
               /\ \A j \in 1..n : ToLower(t[p + j - 1]) = rule.wrong[j]
               /\ Boundary(t, p - 1)
               /\ Boundary(t, p + n - 1)
            THEN n ELSE 0
      [] rule.kind = "AI" ->
            IF /\ p + 2 <= Len(t)
               /\ t[p] = "A" /\ t[p + 1] = "I" /\ t[p + 2] \in Lowercase
               /\ Boundary(t, p - 1)
            THEN 3 ELSE 0
      [] rule.kind = "digit1" ->
            IF /\ p + 2 <= Len(t)
               /\ t[p] \in Uppercase /\ t[p + 1] = "1" /\ t[p + 2] \in Lowercase
               /\ Boundary(t, p - 1)
            THEN 3 ELSE 0
      [] rule.kind = "spaces" ->
            IF p + 1 <= Len(t) /\ t[p] = " " /\ t[p + 1] = " "
            THEN RunEnd(t, p, {" "}) - p + 1 ELSE 0
      [] rule.kind = "linebreak" ->
            \* \s*\n\s* followed by \w takes the whole run of white space after
            \* the hyphen, which must hold a newline
            IF p + 1 <= Len(t) /\ t[p] \in WordChars /\ t[p + 1] = "-"
            THEN LET e == RunEnd(t, p + 2, Whitespace) IN
                 IF /\ \E i \in (p + 2)..e : t[i] = "\n"
                    /\ IsWordAt(t, e + 1)
                 THEN e + 1 - p + 1 ELSE 0
            ELSE 0

\* what re.sub puts in the place of the match of length n at p
Replacement(rule, t, p, n) ==
    CASE rule.kind = "word" -> rule.correct
      [] rule.kind = "AI" -> <<"M", t[p + 2]>>
      [] rule.kind = "digit1" -> <<t[p], "I", t[p + 2]>>
      [] rule.kind = "spaces" -> <<" ">>
      [] rule.kind = "linebreak" -> <<t[p], t[p + n - 1]>>

\* where the scan, standing at p, finds its next match: the least place from
\* p on at which the pattern matches, 0 if there is none
NextMatch(rule, t, p) ==
    LET places == {q \in p..Len(t) : MatchLen(rule, t, q) > 0}
    IN IF places = {} THEN 0
       ELSE CHOOSE q \in places : \A r \in places : q <= r

\* len(re.findall(pattern, t)), scanning from p: after a match the scan goes
\* on behind it
RECURSIVE CountFrom(_, _, _)
CountFrom(rule, t, p) ==
    LET q == NextMatch(rule, t, p) IN
    IF q = 0 THEN 0
    ELSE 1 + CountFrom(rule, t, q + MatchLen(rule, t, q))

\* re.sub(pattern, replacement, t), scanning from p: the text between the
\* matches is copied, each match gives way to its replacement
RECURSIVE SubFrom(_, _, _)
SubFrom(rule, t, p) ==
    LET q == NextMatch(rule, t, p) IN
    IF q = 0 THEN SubSeq(t, p, Len(t))
    ELSE LET n == MatchLen(rule, t, q) IN
         SubSeq(t, p, q - 1) \o Replacement(rule, t, q, n) \o SubFrom(rule, t, q + n)

FindallLen(rule, t) == CountFrom(rule, t, 1)
Sub(rule, t) == SubFrom(rule, t, 1)

----------------------------------------------------------------------------
(* OCRCorrector.correct_text.  st is the state the loops work on:           *)
(* [corrected, applied, log, trace].                                        *)

\* the entry f"{wrong} -> {correct}: {count} times"
LogEntry(rule, count) == [wrong |-> rule.wrong, correct |-> rule.correct, count |-> count]

\* history entry of one visit of a loop body
Visit(kind, k, count, before, after) ==
    [kind |-> kind, index |-> k, count |-> count, before |-> before, after |-> after]

WordStep_addone(st, k) ==
    LET rule == word_corrections[k]
        count == FindallLen(rule, st.corrected)
        after == IF count > 0 THEN Sub(rule, st.corrected) ELSE st.corrected
    IN [corrected |-> after,
        applied |-> IF count > 0 THEN st.applied + 1 ELSE st.applied,
        log |-> IF count > 0 THEN Append(st.log, LogEntry(rule, count)) ELSE st.log,
        trace |-> Append(st.trace, Visit("word", k, count, st.corrected, after))]

\* the body of the loop over self.word_corrections.items(), for its k-th item
WordStep(st, k) ==
    LET rule == word_corrections[k]
        count == FindallLen(rule, st.corrected)
        after == IF count > 0 THEN Sub(rule, st.corrected) ELSE st.corrected
    IN [corrected |-> after,
        applied |-> st.applied + count,
        log |-> IF count > 0 THEN Append(st.log, LogEntry(rule, count)) ELSE st.log,
        trace |-> Append(st.trace, Visit("word", k, count, st.corrected, after))]

CharStep_logged(st, j) ==
    LET rule == char_patterns[j]
        matches == FindallLen(rule, st.corrected)
        after == IF matches > 0 THEN Sub(rule, st.corrected) ELSE st.corrected
    IN [corrected |-> after,
        applied |-> st.applied + matches,
        log |-> IF matches > 0
                THEN Append(st.log, [wrong |-> <<rule.kind>>, correct |-> << >>,
                                     count |-> matches])
                ELSE st.log,
        trace |-> Append(st.trace, Visit("char", j, matches, st.corrected, after))]

\* the body of the loop over self.char_patterns, for its j-th item
CharStep(st, j) ==
    LET rule == char_patterns[j]
        matches == FindallLen(rule, st.corrected)
        after == IF matches > 0 THEN Sub(rule, st.corrected) ELSE st.corrected
    IN [corrected |-> after,
        applied |-> st.applied + matches,
        log |-> st.log,
        trace |-> Append(st.trace, Visit("char", j, matches, st.corrected, after))]

\* the loop "for wrong, correct in self.word_corrections.items()": the items
\* lo..hi visited in order, each on the state the one before left (the range
\* is halved only to keep the evaluation shallow)
RECURSIVE WordLoopRange(_, _, _)
WordLoopRange(st, lo, hi) ==
    IF lo > hi THEN st
    ELSE IF lo = hi THEN WordStep(st, lo)
    ELSE LET mid == (lo + hi) \div 2
             left == WordLoopRange(st, lo, mid)
         \* (the test is always true: it makes TLC work out the first half
         \* before it enters the second)
         IN IF left.applied >= 0 THEN WordLoopRange(left, mid + 1, hi) ELSE left

WordLoop(st) == WordLoopRange(st, 1, Len(word_corrections))

\* the loop "for pattern, replacement in self.char_patterns", from item j on
RECURSIVE CharLoopFrom(_, _)
CharLoopFrom(st, j) ==
    IF j > Len(char_patterns) THEN st ELSE CharLoopFrom(CharStep(st, j), j + 1)

CharLoop(st) == CharLoopFrom(st, 1)

LoopOrder_charfirst == <<"char", "word">>

\* the order of the two loops in the body of correct_text
LoopOrder == <<"word", "char">>

\* where control goes after a loop: the next loop, or the return statement
AfterLoop(name) ==
    LET i == CHOOSE x \in 1..Len(LoopOrder) : LoopOrder[x] = name
    IN IF i < Len(LoopOrder) THEN LoopOrder[i + 1] ELSE "return"

CorrectorState ==
    [corrected |-> corrected, applied |-> corrections_applied,
     log |-> corrections_log, trace |-> trace]

----------------------------------------------------------------------------
(* The texts correct_text is tried on: tokens joined by separators *)

Tokens == {
    <<"t", "l", "i", "e">>,                \* a key of word_corrections
    <<"a", "u", "d">>,                     \* a key
    <<"w", "l", "i", "i", "c", "h">>,      \* a key
    <<"L", "1", "a", "v", "e">>            \* a capital, the digit 1, lowercase letters
}

\* a single space, and a hyphen at a line break
Separators == { <<" ">>, <<"-", "\n">> }

RECURSIVE Join(_, _)
Join(ts, ss) ==
    IF Len(ts) = 1 THEN ts[1]
    ELSE ts[1] \o ss[1] \o Join(Tail(ts), Tail(ss))

\* every key of word_corrections as a text of its own
KeyTexts == {word_corrections[k].wrong : k \in 1..Len(word_corrections)}

InputTexts ==
    KeyTexts \cup
    UNION { {Join(ts, ss) : ts \in [1..n -> Tokens], ss \in [1..(n - 1) -> Separators]}
            : n \in 1..MaxTokens }

InitCorrector ==
    /\ AnalyzerIdle /\ SecondIdle /\ EraIdle /\ MetadataIdle /\ AnalysisIdle
    /\ text \in InputTexts
    /\ corrected = << >>
    /\ corrections_applied = 0
    /\ corrections_log = << >>
    /\ cpc = "idle"
    /\ calls = 0
    /\ returned = << >>
    /\ trace = << >>
    /\ DetectIdle /\ RaceIdle

CallCorrectText_accumulates ==
    /\ cpc = "idle"
    /\ calls < MaxCalls
    /\ text' = IF calls = 0 THEN text ELSE returned
    /\ corrected' = text'
    /\ trace' = << >>
    /\ cpc' = LoopOrder[1]
    /\ UNCHANGED <<calls, returned, corrections_applied, corrections_log>>
    /\ UNCHANGED aggVars /\ UNCHANGED ordVars /\ UNCHANGED eraVars
    /\ UNCHANGED metaVars /\ UNCHANGED anaVars
    /\ UNCHANGED detVars /\ UNCHANGED raceVars

\* correct_text is entered: on the input text, and after that on what the
\* call before returned; the counter and the log are reset
CallCorrectText ==
    /\ cpc = "idle"
    /\ calls < MaxCalls
    /\ text' = IF calls = 0 THEN text ELSE returned
    /\ corrected' = text'
    /\ corrections_applied' = 0
    /\ corrections_log' = << >>
    /\ trace' = << >>
    /\ cpc' = LoopOrder[1]
    /\ UNCHANGED <<calls, returned>>
    /\ UNCHANGED aggVars /\ UNCHANGED ordVars /\ UNCHANGED eraVars
    /\ UNCHANGED metaVars /\ UNCHANGED anaVars
    /\ UNCHANGED detVars /\ UNCHANGED raceVars

\* "Word-level corrections": the whole loop
WordLevelCorrections ==
    /\ cpc = "word"
    /\ LET st == WordLoop(CorrectorState) IN
        /\ corrected' = st.corrected
        /\ corrections_applied' = st.applied
        /\ corrections_log' = st.log
        /\ trace' = st.trace
    /\ cpc' = AfterLoop("word")
    /\ UNCHANGED <<text, calls, returned>>
    /\ UNCHANGED aggVars /\ UNCHANGED ordVars /\ UNCHANGED eraVars
    /\ UNCHANGED metaVars /\ UNCHANGED anaVars
    /\ UNCHANGED detVars /\ UNCHANGED raceVars

\* "Character-level pattern corrections": the whole loop
CharLevelCorrections ==
    /\ cpc = "char"
    /\ LET st == CharLoop(CorrectorState) IN
        /\ corrected' = st.corrected
        /\ corrections_applied' = st.applied
        /\ corrections_log' = st.log
        /\ trace' = st.trace
    /\ cpc' = AfterLoop("char")
    /\ UNCHANGED <<text, calls, returned>>
    /\ UNCHANGED aggVars /\ UNCHANGED ordVars /\ UNCHANGED eraVars
    /\ UNCHANGED metaVars /\ UNCHANGED anaVars
    /\ UNCHANGED detVars /\ UNCHANGED raceVars

\* return corrected
ReturnCorrected ==
    /\ cpc = "return"
    /\ returned' = corrected
    /\ calls' = calls + 1
    /\ cpc' = "idle"
    /\ UNCHANGED <<text, corrected, corrections_applied, corrections_log, trace>>
    /\ UNCHANGED aggVars /\ UNCHANGED ordVars /\ UNCHANGED eraVars
    /\ UNCHANGED metaVars /\ UNCHANGED anaVars
    /\ UNCHANGED detVars /\ UNCHANGED raceVars

NextCorrector ==
    CallCorrectText \/ WordLevelCorrections \/ CharLevelCorrections \/ ReturnCorrected

SpecCorrector == InitCorrector /\ [][NextCorrector]_vars

----------------------------------------------------------------------------
(* Properties of correct_text *)

\* the sum of the counts of the entries of a log
RECURSIVE SumCounts(_)
SumCounts(log) == IF log = << >> THEN 0 ELSE Head(log).count + SumCounts(Tail(log))

\* the visits of the trace of the given kind that found a match
Matched(kind) == SelectSeq(trace, LAMBDA v : v.kind = kind /\ v.count > 0)

\* the sum of the counts of a sequence of visits
RECURSIVE SumVisits(_)
SumVisits(vs) == IF vs = << >> THEN 0 ELSE Head(vs).count + SumVisits(Tail(vs))

\* a call of correct_text has returned and no other has begun
Returned == cpc = "idle" /\ calls >= 1

\* C7: the second call, run on what the first call returned, records no
\* word-rule entry in corrections_log (the log holds word-rule entries only),
\* also when the first call's character patterns rewrote the text.
C7_SecondPassFindsNoWordRule ==
    (cpc = "idle" /\ calls >= 2) => corrections_log = << >>

\* the pieces of t between its single spaces
RECURSIVE SplitFrom(_, _, _)
SplitFrom(t, p, piece) ==
    IF p > Len(t) THEN <<piece>>
    ELSE IF t[p] = " " THEN <<piece>> \o SplitFrom(t, p + 1, << >>)
    ELSE SplitFrom(t, p + 1, Append(piece, t[p]))

Pieces(t) == SplitFrom(t, 1, << >>)

IsKey(w) == \E k \in 1..Len(word_corrections) : word_corrections[k].wrong = w

CorrectionOf(w) ==
    word_corrections[CHOOSE k \in 1..Len(word_corrections) : word_corrections[k].wrong = w].correct

\* t is made only of keys separated by single spaces
KeysOnly(t) == \A i \in 1..Len(Pieces(t)) : IsKey(Pieces(t)[i])

RECURSIVE JoinSpaces(_)
JoinSpaces(ws) ==
    IF Len(ws) = 1 THEN ws[1] ELSE ws[1] \o <<" ">> \o JoinSpaces(Tail(ws))

\* t with every key replaced by its correction
KeysCorrected(t) ==
    JoinSpaces([i \in 1..Len(Pieces(t)) |-> CorrectionOf(Pieces(t)[i])])

\* C8: for a text made only of keys of word_corrections separated by single
\* spaces, correct_text returns the text with every key replaced by its
\* correction, and corrections_applied and the sum of the logged counts both
\* equal the number of keys in the text.
C8_KeysAreCorrected ==
    (Returned /\ calls = 1 /\ KeysOnly(text)) =>
        /\ returned = KeysCorrected(text)
        /\ corrections_applied = Len(Pieces(text))
        /\ SumCounts(corrections_log) = Len(Pieces(text))

\* "tlie aud wliich" has become "the and which" with 3 corrections
C8_Witness ==
    /\ Returned /\ calls = 1
    /\ text = <<"t", "l", "i", "e", " ", "a", "u", "d", " ", "w", "l", "i", "i", "c", "h">>
    /\ returned = <<"t", "h", "e", " ", "a", "n", "d", " ", "w", "h", "i", "c", "h">>
    /\ corrections_applied = 3
    /\ SumCounts(corrections_log) = 3

\* the i-th loop body a call runs, in the declared order: the items of
\* word_corrections, then the items of char_patterns
DeclaredVisit(i) ==
    IF i <= Len(word_corrections) THEN [kind |-> "word", index |-> i]
    ELSE [kind |-> "char", index |-> i - Len(word_corrections)]

\* C9: within a call every word rule is applied, in the declared order of
\* word_corrections, before any character pattern, and each rule works on the
\* text its predecessor left: the visits follow the declared order, the first
\* works on the input, each later one on the result of the one before, and the
\* character patterns begin only when every word rule has been visited.
C9_WordRulesBeforeCharPatterns ==
    /\ \A i \in 1..Len(trace) :
          /\ trace[i].kind = DeclaredVisit(i).kind
          /\ trace[i].index = DeclaredVisit(i).index
          /\ trace[i].before = IF i = 1 THEN text ELSE trace[i - 1].after
    /\ (trace # << >>) => corrected = trace[Len(trace)].after
    /\ (cpc = "word") => trace = << >>
    /\ (cpc = "char") => Len(trace) = Len(word_corrections)
    /\ (cpc = "return") => Len(trace) = Len(word_corrections) + Len(char_patterns)

\* both loops have run, a word rule and a character pattern each found a
\* match, and the character patterns worked on a text the word rules had changed
C9_Witness ==
    /\ cpc = "return"
    /\ Matched("word") # << >>
    /\ Matched("char") # << >>
    /\ trace[Len(word_corrections) + 1].before # text

\* the entries the word rules that matched give, in the order of their visits
WordEntries ==
    [i \in 1..Len(Matched("word")) |->
        LogEntry(word_corrections[Matched("word")[i].index], Matched("word")[i].count)]

\* C10 (amended): after correct_text returns, corrections_log holds, in
\* declaration order, exactly one entry with the match count for every word
\* rule that matched and no other entry (a character pattern that matched
\* gets none); corrections_applied is the sum of the logged counts plus the
\* matches of the character patterns.
C10_LogHoldsWordRulesOnly ==
    Returned =>
        /\ corrections_log = WordEntries
        /\ corrections_applied = SumCounts(corrections_log) + SumVisits(Matched("char"))

\* C10 as stated: the log has one entry for every word rule and every
\* character pattern that matched, so corrections_applied is the sum of the
\* logged counts.
C10_Original ==
    Returned =>
        /\ Len(corrections_log) = Len(Matched("word")) + Len(Matched("char"))
        /\ corrections_applied = SumCounts(corrections_log)

\* a call has returned in which a word rule and a character pattern matched
C10_Witness ==
    /\ Returned
    /\ Matched("word") # << >>
    /\ Matched("char") # << >>
    /\ Len(corrections_log) = Len(Matched("word"))

\* the order of the character patterns as the claim states it: the space
\* collapse, the line-break rejoin, then the two heuristics
StatedOrder == <<"spaces", "linebreak", "AI", "digit1">>

\* t after the character patterns of the given kinds, each applied to what
\* the one before left
RECURSIVE SubInOrder(_, _)
SubInOrder(kinds, t) ==
    IF kinds = << >> THEN t
    ELSE SubInOrder(Tail(kinds), Sub([kind |-> Head(kinds)], t))

\* the text the word rules left to the character patterns
AfterWordRules == trace[Len(word_corrections) + 1].before

\* C22: the character patterns are applied in the order space collapse,
\* line-break rejoin, AI-to-M, capital-1-to-capital-I, so that the text
\* correct_text returns is the text the word rules left with the four
\* patterns applied in that order (a heuristic sees what the rejoin made).
C22_PatternsInStatedOrder ==
    (cpc = "return") =>
        /\ [i \in 1..Len(char_patterns) |->
                char_patterns[trace[Len(word_corrections) + i].index].kind] = StatedOrder
        /\ corrected = SubInOrder(StatedOrder, AfterWordRules)

\* what one call of correct_text on t leaves in an OCRCorrector that was
\* never used before
FirstCallOn(t) ==
    CharLoop(WordLoop([corrected |-> t, applied |-> 0, log |-> << >>, trace |-> << >>]))

\* C24: after any sequence of correct_text calls on one OCRCorrector,
\* corrections_applied and corrections_log are those of the most recent call
\* alone: what the same call leaves in a corrector that was never used
\* before.  Nothing of an earlier call is kept.
C24_ScopedToLastCall ==
    Returned =>
        LET alone == FirstCallOn(text)
        IN /\ corrections_applied = alone.applied
           /\ corrections_log = alone.log

\* the second call has returned, and both calls corrected something: the
\* first turned "L1ave" into "LIave", the second "LIave" into "have"; one
\* correction is recorded, not two
C24_Witness ==
    /\ Returned
    /\ calls = 2
    /\ text = <<"L", "I", "a", "v", "e">>
    /\ returned = <<"h", "a", "v", "e">>
    /\ corrections_applied = 1
    /\ Len(corrections_log) = 1

----------------------------------------------------------------------------
(* ComprehensiveOCRAnalyzer.extract_metadata.  A file path is                *)
(* [dirs |-> the directories above the file, name |-> filepath.name].        *)

\* int() of one decimal digit
DigitValue == [c \in Digits |->
    CASE c = "0" -> 0 [] c = "1" -> 1 [] c = "2" -> 2 [] c = "3" -> 3 [] c = "4" -> 4
      [] c = "5" -> 5 [] c = "6" -> 6 [] c = "7" -> 7 [] c = "8" -> 8 [] c = "9" -> 9]

\* str.lower()
lower(t) == [i \in 1..Len(t) |-> ToLower(t[i])]

\* needle in hay
Contains(hay, needle) ==
    \E i \in 1..(Len(hay) - Len(needle) + 1) : SubSeq(hay, i, i + Len(needle) - 1) = needle

\* re.search of a pattern that is n characters of the class S: the place of
\* the leftmost match, 0 if there is none
SearchRun(t, S, n) ==
    LET places == {p \in 1..(Len(t) - n + 1) : \A j \in 0..(n - 1) : t[p + j] \in S}
    IN IF places = {} THEN 0 ELSE CHOOSE p \in places : \A q \in places : p <= q

RECURSIVE JoinPath(_)
JoinPath(parts) ==
    IF Len(parts) = 1 THEN parts[1] ELSE parts[1] \o <<"/">> \o JoinPath(Tail(parts))

path_str_name(fp) == fp.name

\* path_str = str(filepath)
path_str(fp) == JoinPath(<<<<"G", ":">>>> \o fp.dirs \o <<fp.name>>)

ExtractYear_last(filename) ==
    LET places == {p \in 1..(Len(filename) - 3) : \A j \in 0..3 : filename[p + j] \in Digits}
    IN IF places = {} THEN None
       ELSE LET p == CHOOSE x \in places : \A q \in places : q <= x
            IN Some(DigitValue[filename[p]] * 1000 + DigitValue[filename[p + 1]] * 100
                    + DigitValue[filename[p + 2]] * 10 + DigitValue[filename[p + 3]])

\* "Extract year": re.search(r'(\d{4})', filename), int(group(1)) or None
ExtractYear(filename) ==
    LET p == SearchRun(filename, Digits, 4)
    IN IF p = 0 THEN None
       ELSE Some(DigitValue[filename[p]] * 1000 + DigitValue[filename[p + 1]] * 100
                 + DigitValue[filename[p + 2]] * 10 + DigitValue[filename[p + 3]])

ExtractPaper_cased(filename) ==
    LET p == SearchRun(filename, Lowercase, 3)
    IN IF p = 0 THEN <<"u", "n", "k", "n", "o", "w", "n">>
       ELSE SubSeq(filename, p, p + 2)

\* "Extract newspaper code": re.search(r'([a-z]{3})', filename.lower())
ExtractPaper(filename) ==
    LET low == lower(filename)
        p == SearchRun(low, Lowercase, 3)
    IN IF p = 0 THEN <<"u", "n", "k", "n", "o", "w", "n">>
       ELSE SubSeq(low, p, p + 2)

\* "Detect resolution from path": the if/elif chain over path_str.lower()
ExtractResolution(path) ==
    LET low == lower(path) IN
    IF Contains(low, <<"1", "5", "0", "d", "p", "i">>) THEN Some(150)
    ELSE IF Contains(low, <<"3", "0", "0", "d", "p", "i">>) THEN Some(300)
    ELSE IF Contains(low, <<"4", "0", "0", "d", "p", "i">>) THEN Some(400)
    ELSE IF Contains(low, <<"6", "0", "0", "d", "p", "i">>) THEN Some(600)
    ELSE None

\* the markers of the stages
InprocessMarker == <<"i", "n", "p", "r", "o", "c", "e", "s", "s">>
ReadyMarker == <<"r", "e", "a", "d", "y">>
ArchivalMarker == <<"a", "r", "c", "h", "i", "v", "a", "l">>
BatchMarker == <<"b", "a", "t", "c", "h">>

ExtractStage_readyfirst(path) ==
    LET low == lower(path) IN
    IF Contains(low, ReadyMarker) THEN "ready"
    ELSE IF Contains(low, InprocessMarker) THEN "in_process"
    ELSE IF Contains(low, ArchivalMarker) THEN "archived"
    ELSE IF Contains(low, BatchMarker) THEN "batch"
    ELSE "unknown"

ExtractStage_archivalfirst(path) ==
    LET low == lower(path) IN
    IF Contains(low, InprocessMarker) THEN "in_process"
    ELSE IF Contains(low, ArchivalMarker) THEN "archived"
    ELSE IF Contains(low, ReadyMarker) THEN "ready"
    ELSE IF Contains(low, BatchMarker) THEN "batch"
    ELSE "unknown"

\* "Determine processing stage from directory": the if/elif chain
ExtractStage(path) ==
    LET low == lower(path) IN
    IF Contains(low, InprocessMarker) THEN "in_process"
    ELSE IF Contains(low, ReadyMarker) THEN "ready"
    ELSE IF Contains(low, ArchivalMarker) THEN "archived"
    ELSE IF Contains(low, BatchMarker) THEN "batch"
    ELSE "unknown"

\* "Extract parent directory for grouping": the if/elif chain over path_str
ExtractParentDirectory(path) ==
    IF Contains(path, <<"2", "_", "K", "D", "N", "P", "_", "i", "n", "p", "r", "o", "c", "e", "s", "s">>)
    THEN "2_KDNP_inprocess"
    ELSE IF Contains(path, <<"3", "_", "K", "D", "N", "P", "_", "R", "e", "a", "d", "y">>)
    THEN "3_KDNP_Ready"
    ELSE IF Contains(path, <<"4", "_", "A", "r", "c", "h", "i", "v", "a", "l", "-", "P", "a", "c", "k", "a", "g", "e", "s", "_", "R", "e", "a", "d", "y">>)
    THEN "4_Archival-Packages_Ready"
    ELSE IF Contains(path, <<"7", "_", "N", "D", "N", "P", "_", "B", "a", "t", "c", "h">>)
    THEN "7_NDNP_Batch"
    ELSE "Other"

extract_metadata(fp) ==
    [year |-> ExtractYear(fp.name),
     newspaper_code |-> ExtractPaper(fp.name),
     resolution |-> ExtractResolution(path_str(fp)),
     stage |-> ExtractStage(path_str(fp)),
     parent_directory |-> ExtractParentDirectory(path_str(fp)),
     filename |-> fp.name,
     path |-> path_str(fp)]

\* the directory names and file names the paths are made of
DirNames == {
    <<"2", "_", "K", "D", "N", "P", "_", "i", "n", "p", "r", "o", "c", "e", "s", "s">>,   \* 2_KDNP_inprocess
    <<"3", "_", "K", "D", "N", "P", "_", "R", "e", "a", "d", "y">>,   \* 3_KDNP_Ready
    <<"4", "_", "A", "r", "c", "h", "i", "v", "a", "l", "-", "P", "a", "c", "k", "a", "g", "e", "s", "_", "R", "e", "a", "d", "y">>,   \* 4_Archival-Packages_Ready: two stage markers
    <<"7", "_", "N", "D", "N", "P", "_", "B", "a", "t", "c", "h">>,   \* 7_NDNP_Batch
    <<"1", "8", "2", "8", "_", "3", "0", "0", "d", "p", "i">>,   \* 1828_300dpi: digits, a resolution
    <<"x", "_", "1", "5", "0", "D", "P", "I">>,   \* x_150DPI: a resolution in capitals
    <<"A", "R", "C", "H", "I", "V", "A", "L">>,   \* ARCHIVAL: a stage marker in capitals
    <<"I", "N", "P", "R", "O", "C", "E", "S", "S">>   \* INPROCESS: a stage marker that names no source group
}

FileNames == {
    <<"k", "e", "a", "1", "8", "2", "8", "0", "1", "2", "5", "0", "1", "_", "o", "c", "r", ".", "t", "x", "t">>,   \* kea1828012501_ocr.txt: a run of ten digits
    <<"o", "c", "r", ".", "t", "x", "t">>,   \* ocr.txt: no digit
    <<"a", "b", "c", "0", "0", "0", "0", "_", "o", "c", "r", ".", "t", "x", "t">>,   \* abc0000_ocr.txt: the year 0
    <<"h", "e", "n", "1", "8", "5", "0", "_", "o", "c", "r", ".", "t", "x", "t">>,   \* hen1850_ocr.txt: a run of four digits
    <<"a", "b", "1", "2", "3", "_", "2", "0", "0", "1", "o", "c", "r", ".", "t", "x", "t">>,   \* ab123_2001ocr.txt: three digits, then four; two letters, then three
    <<"K", "E", "N", "T", "U", "C", "K", "Y", "1", "8", "2", "8", "5", ".", "T", "X", "T">>,   \* KENTUCKY18285.TXT: capitals, a run of five digits
    <<"1", "2", "_", "a", "b", ".", "x">>,   \* 12_ab.x: no four digits, no three letters
    <<"b", "a", "t", "c", "h", "_", "9", "9", ".", "t", "x", "t">>   \* batch_99.txt: a stage marker in the file name
}

PathInputs ==
    {[dirs |-> ds, name |-> f] : ds \in SeqsUpTo(DirNames, MaxDirs), f \in FileNames}

InitMetadata ==
    /\ AnalyzerIdle /\ SecondIdle /\ EraIdle /\ CorrectorIdle /\ AnalysisIdle
    /\ filepath \in PathInputs
    /\ metadata = None
    /\ DetectIdle /\ RaceIdle

\* metadata = self.extract_metadata(filepath)
CallExtractMetadata ==
    /\ metadata = None
    /\ metadata' = extract_metadata(filepath)
    /\ UNCHANGED filepath
    /\ UNCHANGED aggVars /\ UNCHANGED ordVars /\ UNCHANGED eraVars /\ UNCHANGED corVars
    /\ UNCHANGED anaVars
    /\ UNCHANGED detVars /\ UNCHANGED raceVars

NextMetadata == CallExtractMetadata

SpecMetadata == InitMetadata /\ [][NextMetadata]_vars

----------------------------------------------------------------------------
(* Properties of extract_metadata *)

\* the places where a maximal run of characters of S begins in t
RunStarts(t, S) == {p \in 1..Len(t) : t[p] \in S /\ (p = 1 \/ t[p - 1] \notin S)}

RunLength(t, p, S) == RunEnd(t, p, S) - p + 1

\* the start of the first maximal run of S whose length passes the test, 0 if none
FirstRun(t, S, LengthOk(_)) ==
    LET starts == {p \in RunStarts(t, S) : LengthOk(RunLength(t, p, S))}
    IN IF starts = {} THEN 0 ELSE CHOOSE p \in starts : \A q \in starts : p <= q

\* the number the four digits from p on spell
FourDigits(t, p) ==
    DigitValue[t[p]] * 1000 + DigitValue[t[p + 1]] * 100
        + DigitValue[t[p + 2]] * 10 + DigitValue[t[p + 3]]

MetadataReturned == metadata # None

\* the full path as text: the drive, the directories and the file name
RECURSIVE UnderDirs(_, _)
UnderDirs(ds, name) ==
    IF ds = << >> THEN name ELSE Head(ds) \o <<"/">> \o UnderDirs(Tail(ds), name)

FullPath(fp) == <<"G", ":", "/">> \o UnderDirs(fp.dirs, fp.name)

KeaName == <<"k", "e", "a", "1", "8", "2", "8", "0", "1", "2", "5", "0", "1", "_", "o", "c", "r", ".", "t", "x", "t">>

\* C13 (amended): the year is the number spelled by the first four digits of
\* the first run of at least four consecutive digits of the file name (the
\* directories are not looked at), and absent when the file name has no run
\* of four or more digits.
C13_YearFromFirstFourDigits ==
    MetadataReturned =>
        LET p == FirstRun(filepath.name, Digits, LAMBDA n : n >= 4)
        IN metadata.year = IF p = 0 THEN None ELSE Some(FourDigits(filepath.name, p))

\* C13 as stated: the year is the value of the first run of exactly four
\* consecutive digits of the file name, absent when it has no such run.
C13_Original ==
    MetadataReturned =>
        LET p == FirstRun(filepath.name, Digits, LAMBDA n : n = 4)
        IN metadata.year = IF p = 0 THEN None ELSE Some(FourDigits(filepath.name, p))

\* a year was taken from a run of more than four digits, under a directory
\* whose name has four digits of its own
C13_Witness ==
    /\ MetadataReturned
    /\ filepath.name = KeaName
    /\ \E i \in 1..Len(filepath.dirs) : SearchRun(filepath.dirs[i], Digits, 4) # 0
    /\ metadata.year = Some(1828)
    /\ FirstRun(filepath.name, Digits, LAMBDA n : n = 4) = 0

KeaFields ==
    /\ metadata.year = Some(1828)
    /\ metadata.newspaper_code = <<"k", "e", "a">>
    /\ metadata.resolution = Some(300)
    /\ metadata.stage = "in_process"

\* the path of the example: kea1828012501_ocr.txt under "300dpi" and "inprocess"
KeaPath ==
    /\ filepath.name = KeaName
    /\ Contains(FullPath(filepath), <<"3", "0", "0", "d", "p", "i">>)
    /\ Contains(FullPath(filepath), InprocessMarker)

\* C14 (amended): for kea1828012501_ocr.txt under a path that contains
\* "300dpi" and "inprocess" and does not contain "150dpi" in any case,
\* extract_metadata yields year 1828, publication code "kea", resolution 300
\* and stage in_process.
C14_KeaExample ==
    (MetadataReturned /\ KeaPath
        /\ ~Contains(lower(FullPath(filepath)), <<"1", "5", "0", "d", "p", "i">>)) => KeaFields

\* C14 as stated: every path that contains "300dpi" and "inprocess" gives
\* these fields.
C14_Original ==
    (MetadataReturned /\ KeaPath) => KeaFields

C14_Witness ==
    /\ MetadataReturned /\ KeaPath /\ KeaFields
    /\ metadata.parent_directory = "2_KDNP_inprocess"

\* the stage markers in their priority order, and the stage each stands for
StagePriority == <<InprocessMarker, ReadyMarker, ArchivalMarker, BatchMarker>>
StageOf == <<"in_process", "ready", "archived", "batch">>

\* the marker occurs somewhere in t, letter case aside
Present(t, marker) ==
    \E i \in 0..(Len(t) - Len(marker)) :
        \A j \in 1..Len(marker) : ToLower(t[i + j]) = marker[j]

\* C15: the stage is that of the first marker, in the order inprocess, ready,
\* archival, batch, that occurs anywhere in the full path in any letter
\* case, and 'unknown' exactly when none of the four occurs.
C15_StageByPriority ==
    MetadataReturned =>
        LET path == FullPath(filepath)
            found == {k \in 1..Len(StagePriority) : Present(path, StagePriority[k])}
        IN /\ found # {} =>
                metadata.stage = StageOf[CHOOSE k \in found : \A m \in found : k <= m]
           /\ (metadata.stage = "unknown") <=> (found = {})

\* a path in which the batch marker comes before the inprocess marker, and a
\* marker is in capitals
C15_Witness ==
    /\ MetadataReturned
    /\ filepath.dirs = <<<<"7", "_", "N", "D", "N", "P", "_", "B", "a", "t", "c", "h">>,
                         <<"A", "R", "C", "H", "I", "V", "A", "L">>,
                         <<"2", "_", "K", "D", "N", "P", "_", "i", "n", "p", "r", "o", "c", "e", "s", "s">>>>
    /\ metadata.stage = "in_process"

\* C20 (amended): the publication code is the first three letters of the
\* first run of at least three letters a-z of the lowercased file name, and
\* "unknown" when the file name has no run of three or more; it is always
\* "unknown" or three lowercase letters.
C20_PaperFromFirstThreeLetters ==
    MetadataReturned =>
        LET low == lower(filepath.name)
            p == FirstRun(low, Lowercase, LAMBDA n : n >= 3)
        IN /\ metadata.newspaper_code =
                IF p = 0 THEN <<"u", "n", "k", "n", "o", "w", "n">>
                ELSE SubSeq(low, p, p + 2)
           /\ \/ metadata.newspaper_code = <<"u", "n", "k", "n", "o", "w", "n">>
              \/ /\ Len(metadata.newspaper_code) = 3
                 /\ \A i \in 1..3 : metadata.newspaper_code[i] \in Lowercase

\* C20 as stated: the publication code is the first run of exactly three
\* lowercase letters of the lowercased file name, "unknown" when there is none.
C20_Original ==
    MetadataReturned =>
        LET low == lower(filepath.name)
            p == FirstRun(low, Lowercase, LAMBDA n : n = 3)
        IN metadata.newspaper_code =
                IF p = 0 THEN <<"u", "n", "k", "n", "o", "w", "n">>
                ELSE SubSeq(low, p, p + 2)

\* a code taken from a run of eight capitals
C20_Witness ==
    /\ MetadataReturned
    /\ filepath.name = <<"K", "E", "N", "T", "U", "C", "K", "Y", "1", "8", "2", "8", "5", ".", "T", "X", "T">>
    /\ metadata.newspaper_code = <<"k", "e", "n">>

ArchivalReadyDir == <<"4", "_", "A", "r", "c", "h", "i", "v", "a", "l", "-", "P", "a", "c", "k", "a", "g", "e", "s", "_", "R", "e", "a", "d", "y">>

\* C26 (amended): the stage follows from the source group only as far as the
\* priority of the markers allows.  Source group '2_KDNP_inprocess' has stage
\* 'in_process'.  Source groups '3_KDNP_Ready' and '4_Archival-Packages_Ready'
\* have stage 'ready', or 'in_process' when "inprocess" occurs anywhere in
\* the path in any letter case; '4_Archival-Packages_Ready' never has stage
\* 'archived'.  Source group '7_NDNP_Batch' never has stage 'unknown', and
\* has stage 'batch' exactly when none of "inprocess", "ready", "archival"
\* occurs in the path.
C26_StageOfSourceGroup ==
    MetadataReturned =>
        LET path == FullPath(filepath)
            group == metadata.parent_directory
            inprocess == Present(path, InprocessMarker)
        IN /\ group = "2_KDNP_inprocess" => metadata.stage = "in_process"
           /\ group \in {"3_KDNP_Ready", "4_Archival-Packages_Ready"} =>
                metadata.stage = IF inprocess THEN "in_process" ELSE "ready"
           /\ group = "7_NDNP_Batch" =>
                /\ metadata.stage # "unknown"
                /\ (metadata.stage = "batch") <=>
                        /\ ~inprocess
                        /\ ~Present(path, ReadyMarker)
                        /\ ~Present(path, ArchivalMarker)

\* C26 as stated: each of the four source groups has its own stage.
C26_Original ==
    MetadataReturned =>
        /\ metadata.parent_directory = "4_Archival-Packages_Ready" => metadata.stage = "archived"
        /\ metadata.parent_directory = "2_KDNP_inprocess" => metadata.stage = "in_process"
        /\ metadata.parent_directory = "3_KDNP_Ready" => metadata.stage = "ready"
        /\ metadata.parent_directory = "7_NDNP_Batch" => metadata.stage = "batch"

\* a document directly under 4_Archival-Packages_Ready, whose stage is 'ready'
C26_Witness ==
    /\ MetadataReturned
    /\ filepath.dirs = <<ArchivalReadyDir>>
    /\ metadata.parent_directory = "4_Archival-Packages_Ready"
    /\ metadata.stage = "ready"

----------------------------------------------------------------------------
(* ComprehensiveOCRAnalyzer.analyze_text.  The two ligature characters of   *)
(* char_confusion_pairs are written "U+FB01" and "U+FB02".                  *)

Pair(wrong, correct) == [wrong |-> wrong, correct |-> correct]

char_confusion_pairs == <<
    Pair(<<"l">>, <<"1">>),
    Pair(<<"I">>, <<"1">>),
    Pair(<<"O">>, <<"0">>),
    Pair(<<"S">>, <<"5">>),
    Pair(<<"Z">>, <<"2">>),
    Pair(<<"r", "n">>, <<"m">>),
    Pair(<<"c", "l">>, <<"d">>),
    Pair(<<"n", "n">>, <<"m">>),
    Pair(<<"l", "i">>, <<"h">>),
    Pair(<<"t", "l">>, <<"d">>),
    Pair(<<"i", "i">>, <<"u">>),
    Pair(<<"v", "v">>, <<"w">>),
    Pair(<<"U+FB01">>, <<"f", "i">>),
    Pair(<<"U+FB02">>, <<"f", "l">>)
>>

WordError(word, correct) == [word |-> word, correct |-> correct]

word_error_dict == {
    WordError(<<"t", "b", "e">>, <<"t", "h", "e">>),
    WordError(<<"t", "l", "i", "e">>, <<"t", "h", "e">>),
    WordError(<<"i", "l", "i", "e">>, <<"t", "h", "e">>),
    WordError(<<"t", "h", "o">>, <<"t", "h", "e">>),
    WordError(<<"t", "l", "i", "a", "t">>, <<"t", "h", "a", "t">>),
    WordError(<<"t", "b", "a", "t">>, <<"t", "h", "a", "t">>),
    WordError(<<"t", "l", "i", "i", "s">>, <<"t", "h", "i", "s">>),
    WordError(<<"t", "l", "i", "e", "s", "e">>, <<"t", "h", "e", "s", "e">>),
    WordError(<<"t", "l", "i", "e", "y">>, <<"t", "h", "e", "y">>),
    WordError(<<"t", "l", "i", "e", "n">>, <<"t", "h", "e", "n">>),
    WordError(<<"t", "l", "i", "e", "r", "e">>, <<"t", "h", "e", "r", "e">>),
    WordError(<<"t", "l", "i", "e", "m">>, <<"t", "h", "e", "m">>),
    WordError(<<"t", "l", "i", "o", "s", "e">>, <<"t", "h", "o", "s", "e">>),
    WordError(<<"t", "l", "i", "r", "e", "e">>, <<"t", "h", "r", "e", "e">>),
    WordError(<<"t", "l", "i", "a", "n">>, <<"t", "h", "a", "n">>),
    WordError(<<"t", "l", "i", "u", "s">>, <<"t", "h", "u", "s">>),
    WordError(<<"t", "l", "i", "r", "o", "u", "g", "h">>, <<"t", "h", "r", "o", "u", "g", "h">>),
    WordError(<<"w", "l", "i", "i", "c", "h">>, <<"w", "h", "i", "c", "h">>),
    WordError(<<"w", "l", "i", "e", "n">>, <<"w", "h", "e", "n">>),
    WordError(<<"w", "l", "i", "e", "r", "e">>, <<"w", "h", "e", "r", "e">>),
    WordError(<<"w", "l", "i", "o">>, <<"w", "h", "o">>),
    WordError(<<"w", "l", "i", "i", "t", "e">>, <<"w", "h", "i", "t", "e">>),
    WordError(<<"w", "l", "i", "i", "l", "e">>, <<"w", "h", "i", "l", "e">>),
    WordError(<<"w", "l", "i", "o", "l", "e">>, <<"w", "h", "o", "l", "e">>),
    WordError(<<"w", "l", "i", "a", "t">>, <<"w", "h", "a", "t">>),
    WordError(<<"w", "l", "i", "y">>, <<"w", "h", "y">>),
    WordError(<<"a", "u", "d">>, <<"a", "n", "d">>),
    WordError(<<"a", "a", "d">>, <<"a", "n", "d">>),
    WordError(<<"a", "i", "i", "d">>, <<"a", "n", "d">>),
    WordError(<<"a", "r", "i", "d">>, <<"a", "n", "d">>),
    WordError(<<"w", "i", "t", "l", "i">>, <<"w", "i", "t", "h">>),
    WordError(<<"w", "i", "t", "b">>, <<"w", "i", "t", "h">>),
    WordError(<<"w", "l", "t", "l", "i">>, <<"w", "i", "t", "h">>),
    WordError(<<"f", "i", "o", "m">>, <<"f", "r", "o", "m">>),
    WordError(<<"f", "r", "o", "r", "n">>, <<"f", "r", "o", "m">>),
    WordError(<<"f", "r", "o">>, <<"f", "r", "o", "m">>),
    WordError(<<"l", "i", "a", "v", "e">>, <<"h", "a", "v", "e">>),
    WordError(<<"l", "i", "a", "d">>, <<"h", "a", "d">>),
    WordError(<<"l", "i", "i", "s">>, <<"h", "i", "s">>),
    WordError(<<"l", "i", "e", "r">>, <<"h", "e", "r">>),
    WordError(<<"l", "i", "i", "m">>, <<"h", "i", "m">>),
    WordError(<<"l", "i", "o", "w">>, <<"h", "o", "w">>),
    WordError(<<"l", "i", "e", "r", "e">>, <<"h", "e", "r", "e">>),
    WordError(<<"l", "i", "a", "n", "d">>, <<"h", "a", "n", "d">>),
    WordError(<<"l", "i", "o", "u", "s", "e">>, <<"h", "o", "u", "s", "e">>),
    WordError(<<"l", "i", "e", "a", "r", "t">>, <<"h", "e", "a", "r", "t">>),
    WordError(<<"l", "i", "e", "a", "d">>, <<"h", "e", "a", "d">>),
    WordError(<<"l", "i", "i", "g", "h">>, <<"h", "i", "g", "h">>),
    WordError(<<"w", "a", "g">>, <<"w", "a", "s">>),
    WordError(<<"i", "o">>, <<"t", "o">>),
    WordError(<<"o", "d">>, <<"o", "f">>),
    WordError(<<"i", "u">>, <<"i", "n">>),
    WordError(<<"o", "u", "e">>, <<"o", "n", "e">>),
    WordError(<<"c", "a", "u">>, <<"c", "a", "n">>),
    WordError(<<"o", "w", "u">>, <<"o", "w", "n">>),
    WordError(<<"u", "o", "w">>, <<"n", "o", "w">>),
    WordError(<<"o", "u", "l", "y">>, <<"o", "n", "l", "y">>),
    WordError(<<"i", "u", "s", "t", "e", "a", "d">>, <<"i", "n", "s", "t", "e", "a", "d">>),
    WordError(<<"u", "p", "o", "u">>, <<"u", "p", "o", "n">>),
    WordError(<<"r", "n", "a", "n">>, <<"m", "a", "n">>),
    WordError(<<"r", "a", "e", "n">>, <<"m", "e", "n">>),
    WordError(<<"r", "n", "o", "r", "e">>, <<"m", "o", "r", "e">>),
    WordError(<<"r", "n", "u", "s", "t">>, <<"m", "u", "s", "t">>),
    WordError(<<"r", "n", "a", "k", "e">>, <<"m", "a", "k", "e">>),
    WordError(<<"r", "n", "a", "n", "y">>, <<"m", "a", "n", "y">>),
    WordError(<<"t", "i", "r", "n", "e">>, <<"t", "i", "m", "e">>),
    WordError(<<"s", "o", "r", "n", "e">>, <<"s", "o", "m", "e">>),
    WordError(<<"c", "o", "r", "n", "e">>, <<"c", "o", "m", "e">>),
    WordError(<<"b", "e", "c", "o", "r", "n", "e">>, <<"b", "e", "c", "o", "m", "e">>),
    WordError(<<"h", "o", "r", "n", "e">>, <<"h", "o", "m", "e">>),
    WordError(<<"n", "a", "r", "n", "e">>, <<"n", "a", "m", "e">>),
    WordError(<<"s", "a", "r", "n", "e">>, <<"s", "a", "m", "e">>)
}

\* counter[key] += n on a Counter or a defaultdict(int)
CounterAdd(counter, key, n) == DictSet(counter, key, DictGet(counter, key, 0) + n)

\* re.escape(wrong) matches at p: the characters of wrong, as written
LiteralAt(wrong, t, p) ==
    p + Len(wrong) - 1 <= Len(t) /\ SubSeq(t, p, p + Len(wrong) - 1) = wrong

RECURSIVE FindallLiteral_overlapping(_, _, _)
FindallLiteral_overlapping(wrong, t, p) ==
    LET places == {q \in p..Len(t) : LiteralAt(wrong, t, q)}
    IN IF places = {} THEN 0
       ELSE LET q == CHOOSE x \in places : \A y \in places : x <= y
            IN 1 + FindallLiteral_overlapping(wrong, t, q + 1)

\* len(pattern.findall(text)), scanning from p: the leftmost match from p on
\* is counted and the scan goes on behind it
RECURSIVE FindallLiteral(_, _, _)
FindallLiteral(wrong, t, p) ==
    LET places == {q \in p..Len(t) : LiteralAt(wrong, t, q)}
    IN IF places = {} THEN 0
       ELSE LET q == CHOOSE x \in places : \A y \in places : x <= y
            IN 1 + FindallLiteral(wrong, t, q + Len(wrong))

\* re.findall(r'\b\w+\b', t): the maximal runs of word characters, in order
FindallWords(t) ==
    LET starts == {p \in 1..Len(t) : IsWordAt(t, p) /\ ~IsWordAt(t, p - 1)}
        nth(k) == CHOOSE p \in starts : Cardinality({q \in starts : q < p}) = k - 1
    IN [k \in 1..Cardinality(starts) |-> SubSeq(t, nth(k), RunEnd(t, nth(k), WordChars))]

\* len(re.findall(r'\b\w*\d\w*[a-z]\w*|\b\w*[a-z]\w*\d\w*\b', t)): a match
\* starts where a run of word characters starts and takes the whole run; there
\* is one exactly when the run has a digit before a letter a-z or a letter
\* a-z before a digit
FindallMixed(t) ==
    LET runs == FindallWords(t)
        ordered(w, First, Second) ==
            \E i, j \in 1..Len(w) : i < j /\ w[i] \in First /\ w[j] \in Second
    IN Cardinality({k \in 1..Len(runs) :
            ordered(runs[k], Digits, Lowercase) \/ ordered(runs[k], Lowercase, Digits)})

\* len(re.findall(r'(.)\1{2,}', t)): one match for every maximal run of three
\* or more of one character other than the newline
FindallRepeated(t) ==
    Cardinality({p \in 1..Len(t) :
        /\ t[p] # "\n"
        /\ (p = 1 \/ t[p - 1] # t[p])
        /\ RunEnd(t, p, {t[p]}) - p + 1 >= 3})

\* the state the loops of analyze_text work on: the counters of
\* results['error_patterns'] and the dict analysis
AnalysisState(ep, t) ==
    [error_patterns |-> ep,
     analysis |-> [word_count |-> Len(FindallWords(lower(t))),
                   char_count |-> Len(t),
                   errors_found |-> [character_level |-> 0, word_level |-> 0,
                                     suspicious |-> 0]]]

CharacterStep_firstonly(st, t, k) ==
    LET pair == char_confusion_pairs[k]
        matches == FindallLiteral(pair.wrong, t, 1)
    IN IF matches > 0 /\ st.analysis.errors_found.character_level = 0
       THEN [st EXCEPT
                !.error_patterns.character_substitutions = CounterAdd(@, pair, matches),
                !.analysis.errors_found.character_level = @ + matches]
       ELSE st

\* the body of "Character-level analysis" for the k-th pair
CharacterStep(st, t, k) ==
    LET pair == char_confusion_pairs[k]
        matches == FindallLiteral(pair.wrong, t, 1)
    IN IF matches > 0
       THEN [st EXCEPT
                !.error_patterns.character_substitutions = CounterAdd(@, pair, matches),
                !.analysis.errors_found.character_level = @ + matches]
       ELSE st

RECURSIVE CharacterLoop(_, _, _)
CharacterLoop(st, t, k) ==
    IF k > Len(char_confusion_pairs) THEN st
    ELSE CharacterLoop(CharacterStep(st, t, k), t, k + 1)

\* the body of "Word-level analysis" for one word
WordErrorStep(st, word) ==
    IF \E entry \in word_error_dict : entry.word = word
    THEN LET entry == CHOOSE x \in word_error_dict : x.word = word
         IN [st EXCEPT
                !.error_patterns.word_level_errors = CounterAdd(@, entry, 1),
                !.analysis.errors_found.word_level = @ + 1]
    ELSE st

RECURSIVE WordErrorLoop(_, _)
WordErrorLoop(st, words) ==
    IF words = << >> THEN st
    ELSE WordErrorLoop(WordErrorStep(st, Head(words)), Tail(words))

\* "Suspicious pattern detection"
SuspiciousStep(st, t) ==
    LET mixed == FindallMixed(t)
        repeated == FindallRepeated(t)
    IN [st EXCEPT
            !.error_patterns.suspicious_patterns =
                CounterAdd(CounterAdd(@, "mixed_nums_letters", mixed),
                           "repeated_chars", repeated),
            !.analysis.errors_found.suspicious = mixed + repeated]

\* analyze_text run on the counters ep and the text t: the counters it
\* leaves and the dict it returns
analyze_text(ep, t) ==
    SuspiciousStep(
        WordErrorLoop(CharacterLoop(AnalysisState(ep, t), t, 1), FindallWords(lower(t))),
        t)

\* the texts analyze_text is tried on
TextAlphabet == {"r", "n", "i"}

SampleTexts == {
    <<"t", "l", "i", "e">>,   \* "tlie": a key of word_error_dict; the pairs l, li and tl match
    <<"t", "l", "i", "e", " ", "a", "u", "d", " ", "w", "l", "i", "i", "c", "h">>,   \* "tlie aud wliich"
    <<"t", "h", "e", " ", "r", "n", "r", "n", "r", "n">>,   \* "the rnrnrn"
    <<"t", "b", "e", " ", "1", "a", "w">>,   \* "tbe 1aw": a token with a digit and letters
    <<"-", "-", "-">>,   \* "---": a run of one character
    <<"I", "l", "l", "l", " ", "c", "l", "1">>   \* "Illl cl1"
}

AnalyzeTexts == SeqsUpTo(TextAlphabet, MaxTextLen) \cup SampleTexts

InitAnalyze ==
    /\ AnalyzerIdle /\ SecondIdle /\ EraIdle /\ CorrectorIdle /\ MetadataIdle
    /\ a_text \in AnalyzeTexts
    /\ analysis = None
    /\ error_patterns = [character_substitutions |-> EmptyDict,
                         word_level_errors |-> EmptyDict,
                         suspicious_patterns |-> EmptyDict]
    /\ analyses = 0
    /\ DetectIdle /\ RaceIdle

\* analysis = self.analyze_text(text, metadata)
CallAnalyzeText ==
    /\ analyses < MaxAnalyses
    /\ LET st == analyze_text(error_patterns, a_text) IN
        /\ error_patterns' = st.error_patterns
        /\ analysis' = st.analysis
    /\ analyses' = analyses + 1
    /\ UNCHANGED a_text
    /\ UNCHANGED aggVars /\ UNCHANGED ordVars /\ UNCHANGED eraVars /\ UNCHANGED corVars
    /\ UNCHANGED metaVars
    /\ UNCHANGED detVars /\ UNCHANGED raceVars

NextAnalyze == CallAnalyzeText

SpecAnalyze == InitAnalyze /\ [][NextAnalyze]_vars

----------------------------------------------------------------------------
(* Properties of analyze_text *)

\* the places where wrong occurs in t
Occurrences(wrong, t) ==
    {p \in 1..(Len(t) - Len(wrong) + 1) :
        \A j \in 1..Len(wrong) : t[p + j - 1] = wrong[j]}

\* the occurrences a left-to-right scan without overlaps takes: an occurrence
\* is taken exactly when no taken occurrence to its left reaches into it
Taken(wrong, t) ==
    CHOOSE G \in SUBSET Occurrences(wrong, t) :
        \A p \in Occurrences(wrong, t) :
            (p \in G) <=> ~(\E q \in G : q < p /\ p < q + Len(wrong))

NonOverlapping(wrong, t) == Cardinality(Taken(wrong, t))

\* the pair of char_confusion_pairs with the given wrong text
PairOf(wrong) ==
    CHOOSE pair \in {char_confusion_pairs[k] : k \in 1..Len(char_confusion_pairs)} :
        pair.wrong = wrong

\* what the calls so far have counted for a pair
Counted(pair) == DictGet(error_patterns.character_substitutions, pair, 0)

\* t is a run of one letter
RunOf(t, c) == Len(t) >= 1 /\ \A i \in 1..Len(t) : t[i] = c

\* C11: each call of analyze_text counts, for every character rule, the
\* non-overlapping left-to-right occurrences of the rule's pattern in the
\* raw text: "rnrnrn" counts 3 for "rn", and a run of k identical letters
\* counts k \div 2 for the doubled-letter rules "ii" and "nn".
C11_NonOverlappingCounts ==
    (analyses >= 1) =>
        /\ \A k \in 1..Len(char_confusion_pairs) :
              Counted(char_confusion_pairs[k]) =
                  analyses * NonOverlapping(char_confusion_pairs[k].wrong, a_text)
        /\ \A pair \in DOMAIN error_patterns.character_substitutions :
              \E k \in 1..Len(char_confusion_pairs) : char_confusion_pairs[k] = pair
        /\ (a_text = <<"r", "n", "r", "n", "r", "n">>) =>
              Counted(PairOf(<<"r", "n">>)) = analyses * 3
        /\ RunOf(a_text, "i") =>
              Counted(PairOf(<<"i", "i">>)) = analyses * (Len(a_text) \div 2)
        /\ RunOf(a_text, "n") =>
              Counted(PairOf(<<"n", "n">>)) = analyses * (Len(a_text) \div 2)

\* one call on a run of five "i": four overlapping occurrences of "ii", two counted
C11_Witness ==
    /\ analyses = 1
    /\ a_text = <<"i", "i", "i", "i", "i">>
    /\ Cardinality(Occurrences(<<"i", "i">>, a_text)) = 4
    /\ Counted(PairOf(<<"i", "i">>)) = 2

\* C12: the character_level total of a document is the sum over all
\* character rules of the rule's own count, whatever other rules or word
\* rules match the same span: "tlie" adds 1 for each of "l", "li" and "tl"
\* to character_level and 1 to word_level.
C12_RulesCountedIndependently ==
    (analyses >= 1) =>
        /\ analysis.errors_found.character_level =
              SumSeq([k \in 1..Len(char_confusion_pairs) |->
                        NonOverlapping(char_confusion_pairs[k].wrong, a_text)])
        /\ (a_text = <<"t", "l", "i", "e">>) =>
              /\ Counted(PairOf(<<"l">>)) = analyses
              /\ Counted(PairOf(<<"l", "i">>)) = analyses
              /\ Counted(PairOf(<<"t", "l">>)) = analyses
              /\ analysis.errors_found.character_level = 3
              /\ analysis.errors_found.word_level = 1

C12_Witness ==
    /\ analyses = 1
    /\ a_text = <<"t", "l", "i", "e">>
    /\ analysis.errors_found.character_level = 3
    /\ analysis.errors_found.word_level = 1
    /\ Cardinality(DOMAIN error_patterns.character_substitutions) = 3

\* C16: a call of analyze_text changes no state that outlives the call: it
\* leaves the counters of results['error_patterns'] as they were.
C16_AnalyzeTextIsPure ==
    [][(analyses' = analyses + 1) => (error_patterns' = error_patterns)]_vars

----------------------------------------------------------------------------
(* Properties of the loop of scan_all_files *)

\* the number of files of the batch the loop has visited
Visited == Len(batch) - Len(files)

\* the places in the batch of the visited files whose iteration did not raise
Survivors == {i \in 1..Visited : \A k \in 1..Len(skipped) : skipped[k] # i}

\* the fold of a list of documents into a fresh analyzer, in order
RECURSIVE FoldAll(_)
FoldAll(ds) ==
    IF ds = << >> THEN FreshResults
    ELSE Fold(FoldAll(SubSeq(ds, 1, Len(ds) - 1)), ds[Len(ds)])

\* finalize has run: results['statistics'] is filled
Finalized == results.statistics # EmptyDict

\* C17: within a run of scan_all_files, calculate_statistics runs only when
\* the loop has visited every file of the batch, it computes from the totals
\* the folds left, and once it has run nothing is folded any more.
C17_FinalizeAfterLastFold ==
    [][/\ (results'.statistics # results.statistics) =>
            /\ files = << >>
            /\ Visited = Len(batch)
            /\ results = FoldAll(folded)
            /\ results' = calculate_statistics(results)
       /\ Finalized => (results' = results /\ folded' = folded)]_vars

\* finalize ran at the end of a run that folded two documents or more
C17_Witness ==
    /\ pc = "done"
    /\ Finalized
    /\ Len(folded) >= 2
    /\ results = calculate_statistics(FoldAll(folded))

\* C18: an iteration that raises does not end the loop and adds nothing: the
\* documents folded are the visited files that did not fail, in batch order,
\* the totals are those of folding these documents only, and when the run is
\* over every file of the batch was visited.
C18_FailureSkipsOneDocument ==
    /\ Len(folded) = Cardinality(Survivors)
    /\ \A i \in Survivors :
          folded[Cardinality({j \in Survivors : j <= i})] = batch[i]
    /\ (pc = "scanning") => results = FoldAll(folded)
    /\ (pc = "done") =>
          /\ Visited = Len(batch)
          /\ results = calculate_statistics(FoldAll(folded))

\* a run is over in which a file failed and a later file was folded
C18_Witness ==
    /\ pc = "done"
    /\ \E k \in 1..Len(skipped) : \E i \in Survivors : skipped[k] < i
    /\ results.metadata.total_files = Len(batch) - Len(skipped)

\* C19: the years set of each publication bucket is the set of the years of
\* the documents folded into the bucket that have a year, the year 0 included.
C19_YearsOfPublication ==
    \A paper \in DOMAIN results.by_newspaper :
        results.by_newspaper[paper].years =
            {folded[i].year[1] : i \in {j \in 1..Len(folded) :
                /\ folded[j].newspaper_code = paper
                /\ folded[j].year # None}}

\* the fields finalize fills in results['statistics']
StatisticsFields ==
    {"avg_words_per_file", "avg_chars_per_file", "total_error_patterns", "error_rates"}

\* C25: whenever scan_all_files returns, finalize has run and
\* results['statistics'] holds its four fields, also when the search found
\* no file.
C25_StatisticsAfterEveryReturn ==
    (pc \in {"done", "returned_early"}) =>
        /\ Finalized
        /\ StatisticsFields \subseteq DOMAIN results.statistics

----------------------------------------------------------------------------
(* OCRErrorAnalyzer.detect_common_errors (src/full_analyzer.py)             *)

\* the dict common_errors of detect_common_errors (the key 'tlie' is written
\* twice, with the same value)
common_errors == {
    WordError(<<"t", "l", "i", "e">>, <<"t", "h", "e">>),
    WordError(<<"i", "l", "i", "e">>, <<"t", "h", "e">>),
    WordError(<<"t", "b", "e">>, <<"t", "h", "e">>),
    WordError(<<"t", "b", "a", "t">>, <<"t", "h", "a", "t">>),
    WordError(<<"a", "u", "d">>, <<"a", "n", "d">>),
    WordError(<<"a", "a", "d">>, <<"a", "n", "d">>),
    WordError(<<"f", "i", "o", "m">>, <<"f", "r", "o", "m">>),
    WordError(<<"w", "i", "t", "l", "i">>, <<"w", "i", "t", "h">>),
    WordError(<<"w", "l", "i", "i", "c", "h">>, <<"w", "h", "i", "c", "h">>),
    WordError(<<"w", "l", "i", "e", "n">>, <<"w", "h", "e", "n">>),
    WordError(<<"t", "l", "i", "i", "s">>, <<"t", "h", "i", "s">>),
    WordError(<<"w", "l", "i", "i", "t", "e">>, <<"w", "h", "i", "t", "e">>),
    WordError(<<"t", "l", "i", "e", "y">>, <<"t", "h", "e", "y">>),
    WordError(<<"t", "l", "i", "e", "s", "e">>, <<"t", "h", "e", "s", "e">>),
    WordError(<<"t", "l", "i", "o", "s", "e">>, <<"t", "h", "o", "s", "e">>),
    WordError(<<"l", "i", "i", "s">>, <<"h", "i", "s">>),
    WordError(<<"l", "i", "e", "r">>, <<"h", "e", "r">>),
    WordError(<<"l", "i", "a", "v", "e">>, <<"h", "a", "v", "e">>),
    WordError(<<"l", "i", "a", "d">>, <<"h", "a", "d">>),
    WordError(<<"f", "i", "i", "e", "i", "d", "s">>, <<"f", "r", "i", "e", "n", "d", "s">>),
    WordError(<<"f", "i", "r", "i", "e", "n", "d">>, <<"f", "r", "i", "e", "n", "d">>),
    WordError(<<"t", "b", "s", "e", "r", "v", "e", "d">>, <<"o", "b", "s", "e", "r", "v", "e", "d">>),
    WordError(<<"l", "o", "u", "b", "t", "e", "d">>, <<"d", "o", "u", "b", "t", "e", "d">>),
    WordError(<<"p", "r", "o", "b", "f">>, <<"p", "r", "o", "o", "f">>),
    WordError(<<"w", "o", "i", "f", "e", "t">>, <<"w", "o", "r", "s", "t">>),
    WordError(<<"r", "u", "o", "n", "g">>, <<"w", "r", "o", "n", "g">>),
    WordError(<<"w", "a", "g">>, <<"w", "a", "s">>),
    WordError(<<"i", "o">>, <<"t", "o">>),
    WordError(<<"a", "l">>, <<"a", "t">>),
    WordError(<<"o", "d">>, <<"o", "f">>)
}

\* self.common_words: the words of common_words_text, lowercased
common_words == {
    <<"a">>,
    <<"a", "b", "o", "u", "t">>,
    <<"a", "c", "t">>,
    <<"a", "d", "d">>,
    <<"a", "f", "t", "e", "r">>,
    <<"a", "g", "a", "i", "n">>,
    <<"a", "i", "r">>,
    <<"a", "l", "l">>,
    <<"a", "l", "s", "o">>,
    <<"a", "n">>,
    <<"a", "n", "d">>,
    <<"a", "n", "i", "m", "a", "l">>,
    <<"a", "n", "y">>,
    <<"a", "r", "e">>,
    <<"a", "s">>,
    <<"a", "s", "k">>,
    <<"a", "t">>,
    <<"b", "a", "c", "k">>,
    <<"b", "e">>,
    <<"b", "e", "e", "n">>,
    <<"b", "e", "f", "o", "r", "e">>,
    <<"b", "i", "g">>,
    <<"b", "o", "y">>,
    <<"b", "u", "i", "l", "d">>,
    <<"b", "u", "t">>,
    <<"b", "y">>,
    <<"c", "a", "l", "l">>,
    <<"c", "a", "m", "e">>,
    <<"c", "a", "n">>,
    <<"c", "a", "u", "s", "e">>,
    <<"c", "h", "a", "n", "g", "e">>,
    <<"c", "o", "m", "e">>,
    <<"c", "o", "u", "l", "d">>,
    <<"d", "a", "y">>,
    <<"d", "i", "d">>,
    <<"d", "i", "f", "f", "e", "r">>,
    <<"d", "o">>,
    <<"d", "o", "e", "s">>,
    <<"d", "o", "w", "n">>,
    <<"e", "a", "c", "h">>,
    <<"e", "a", "r", "t", "h">>,
    <<"e", "n", "d">>,
    <<"e", "v", "e", "n">>,
    <<"e", "v", "e", "r", "y">>,
    <<"f", "a", "t", "h", "e", "r">>,
    <<"f", "i", "n", "d">>,
    <<"f", "o", "l", "l", "o", "w">>,
    <<"f", "o", "r">>,
    <<"f", "o", "r", "m">>,
    <<"f", "r", "o", "m">>,
    <<"g", "e", "t">>,
    <<"g", "i", "v", "e">>,
    <<"g", "o">>,
    <<"g", "o", "o", "d">>,
    <<"g", "r", "e", "a", "t">>,
    <<"h", "a", "d">>,
    <<"h", "a", "n", "d">>,
    <<"h", "a", "s">>,
    <<"h", "a", "v", "e">>,
    <<"h", "e">>,
    <<"h", "e", "l", "p">>,
    <<"h", "e", "r">>,
    <<"h", "e", "r", "e">>,
    <<"h", "i", "g", "h">>,
    <<"h", "i", "m">>,
    <<"h", "i", "s">>,
    <<"h", "o", "m", "e">>,
    <<"h", "o", "t">>,
    <<"h", "o", "u", "s", "e">>,
    <<"h", "o", "w">>,
    <<"i">>,
    <<"i", "f">>,
    <<"i", "n">>,
    <<"i", "s">>,
    <<"i", "t">>,
    <<"i", "t", "s">>,
    <<"j", "u", "s", "t">>,
    <<"k", "i", "n", "d">>,
    <<"k", "n", "o", "w">>,
    <<"l", "a", "n", "d">>,
    <<"l", "a", "r", "g", "e">>,
    <<"l", "i", "g", "h", "t">>,
    <<"l", "i", "k", "e">>,
    <<"l", "i", "n", "e">>,
    <<"l", "i", "t", "t", "l", "e">>,
    <<"l", "i", "v", "e">>,
    <<"l", "o", "n", "g">>,
    <<"l", "o", "o", "k">>,
    <<"l", "o", "w">>,
    <<"m", "a", "d", "e">>,
    <<"m", "a", "k", "e">>,
    <<"m", "a", "n">>,
    <<"m", "a", "n", "y">>,
    <<"m", "a", "y">>,
    <<"m", "e">>,
    <<"m", "e", "a", "n">>,
    <<"m", "e", "n">>,
    <<"m", "o", "r", "e">>,
    <<"m", "o", "s", "t">>,
    <<"m", "o", "t", "h", "e", "r">>,
    <<"m", "o", "v", "e">>,
    <<"m", "u", "c", "h">>,
    <<"m", "u", "s", "t">>,
    <<"m", "y">>,
    <<"n", "a", "m", "e">>,
    <<"n", "e", "a", "r">>,
    <<"n", "e", "e", "d">>,
    <<"n", "e", "w">>,
    <<"n", "o">>,
    <<"n", "o", "w">>,
    <<"n", "u", "m", "b", "e", "r">>,
    <<"o", "f">>,
    <<"o", "f", "f">>,
    <<"o", "i", "l">>,
    <<"o", "l", "d">>,
    <<"o", "n">>,
    <<"o", "n", "e">>,
    <<"o", "n", "l", "y">>,
    <<"o", "r">>,
    <<"o", "t", "h", "e", "r">>,
    <<"o", "u", "r">>,
    <<"o", "u", "t">>,
    <<"o", "v", "e", "r">>,
    <<"p", "a", "r", "t">>,
    <<"p", "e", "o", "p", "l", "e">>,
    <<"p", "i", "c", "t", "u", "r", "e">>,
    <<"p", "l", "a", "c", "e">>,
    <<"p", "l", "a", "y">>,
    <<"p", "o", "i", "n", "t">>,
    <<"p", "o", "r", "t">>,
    <<"p", "u", "t">>,
    <<"r", "e", "a", "d">>,
    <<"r", "i", "g", "h", "t">>,
    <<"r", "o", "u", "n", "d">>,
    <<"s", "a", "i", "d">>,
    <<"s", "a", "m", "e">>,
    <<"s", "a", "y">>,
    <<"s", "e", "e">>,
    <<"s", "e", "l", "f">>,
    <<"s", "e", "n", "t", "e", "n", "c", "e">>,
    <<"s", "e", "t">>,
    <<"s", "h", "e">>,
    <<"s", "h", "o", "w">>,
    <<"s", "i", "d", "e">>,
    <<"s", "m", "a", "l", "l">>,
    <<"s", "o">>,
    <<"s", "o", "m", "e">>,
    <<"s", "o", "u", "n", "d">>,
    <<"s", "p", "e", "l", "l">>,
    <<"s", "u", "c", "h">>,
    <<"t", "a", "k", "e">>,
    <<"t", "e", "l", "l">>,
    <<"t", "h", "a", "n">>,
    <<"t", "h", "a", "t">>,
    <<"t", "h", "e">>,
    <<"t", "h", "e", "i", "r">>,
    <<"t", "h", "e", "m">>,
    <<"t", "h", "e", "n">>,
    <<"t", "h", "e", "r", "e">>,
    <<"t", "h", "e", "s", "e">>,
    <<"t", "h", "e", "y">>,
    <<"t", "h", "i", "n", "g">>,
    <<"t", "h", "i", "n", "k">>,
    <<"t", "h", "i", "s">>,
    <<"t", "h", "r", "e", "e">>,
    <<"t", "h", "r", "o", "u", "g", "h">>,
    <<"t", "i", "m", "e">>,
    <<"t", "o">>,
    <<"t", "o", "o">>,
    <<"t", "r", "y">>,
    <<"t", "u", "r", "n">>,
    <<"t", "w", "o">>,
    <<"u", "n", "d", "e", "r">>,
    <<"u", "p">>,
    <<"u", "s">>,
    <<"u", "s", "e">>,
    <<"v", "e", "r", "y">>,
    <<"w", "a", "n", "t">>,
    <<"w", "a", "s">>,
    <<"w", "a", "t", "e", "r">>,
    <<"w", "a", "y">>,
    <<"w", "e">>,
    <<"w", "e", "l", "l">>,
    <<"w", "e", "n", "t">>,
    <<"w", "e", "r", "e">>,
    <<"w", "h", "a", "t">>,
    <<"w", "h", "e", "n">>,
    <<"w", "h", "e", "r", "e">>,
    <<"w", "h", "i", "c", "h">>,
    <<"w", "h", "o">>,
    <<"w", "h", "y">>,
    <<"w", "i", "l", "l">>,
    <<"w", "i", "t", "h">>,
    <<"w", "o", "r", "d">>,
    <<"w", "o", "r", "k">>,
    <<"w", "o", "r", "l", "d">>,
    <<"w", "o", "u", "l", "d">>,
    <<"w", "r", "i", "t", "e">>,
    <<"y", "e", "a", "r">>,
    <<"y", "o", "u">>,
    <<"y", "o", "u", "r">>
}

\* re.search(r'\d+[a-z]+|\[a-z]+\d+', word): a digit right before a letter
\* a-z, or the characters "[a-z", one or more "]" and a digit
SearchMixed(word) ==
    \/ \E i \in 1..(Len(word) - 1) : word[i] \in Digits /\ word[i + 1] \in Lowercase
    \/ \E i \in 1..(Len(word) - 5) :
            /\ SubSeq(word, i, i + 3) = <<"[", "a", "-", "z">>
            /\ word[i + 4] = "]"
            /\ RunEnd(word, i + 4, {"]"}) < Len(word)
            /\ word[RunEnd(word, i + 4, {"]"}) + 1] \in Digits

\* re.search(r'(.)\1{2,}', word): one character three times in a row
SearchRepeated(word) ==
    \E i \in 1..(Len(word) - 2) :
        word[i] # "\n" /\ word[i + 1] = word[i] /\ word[i + 2] = word[i]

\* re.search(r'\d', word)
SearchDigit(word) == \E i \in 1..Len(word) : word[i] \in Digits

\* the lookup "if word in common_errors" and its count
CommonErrorStep(res, word) ==
    IF \E entry \in common_errors : entry.word = word
    THEN [res EXCEPT !.common_word_errors =
            CounterAdd(@, CHOOSE x \in common_errors : x.word = word, 1)]
    ELSE res

\* the guard of the loop body: if len(word) > 2
LongEnough(word) == Len(word) > 2

\* the body of "for word in words"
DetectStep(res, word) ==
    IF LongEnough(word)
    THEN LET mixed == IF SearchMixed(word)
                      THEN [res EXCEPT !.suspicious_patterns =
                                CounterAdd(@, "mixed_nums_letters", 1)]
                      ELSE res
             errors == CommonErrorStep(mixed, word)
             repeated == IF SearchRepeated(word)
                         THEN [errors EXCEPT !.suspicious_patterns =
                                    CounterAdd(@, "repeated_chars", 1)]
                         ELSE errors
         IN IF word \notin common_words /\ Len(word) > 3 /\ ~SearchDigit(word)
            THEN [repeated EXCEPT !.suspicious_patterns =
                        CounterAdd(@, "non_dict_words", 1)]
            ELSE repeated
    ELSE res

RECURSIVE DetectLoop(_, _)
DetectLoop(res, words) ==
    IF words = << >> THEN res
    ELSE DetectLoop(DetectStep(res, Head(words)), Tail(words))

\* detect_common_errors run on the counters res and the text t: the counters
\* it leaves and the list of words it returns
detect_common_errors(res, t) ==
    LET words == FindallWords(lower(t))
    IN [results |-> DetectLoop(res, words), words |-> words]

\* the tokens of the texts detect_common_errors is tried on
DetectTokens == {
    <<"i", "o">>,             \* "io": a key of common_errors of two letters
    <<"a", "l">>,             \* "al": a key of two letters
    <<"O", "d">>,             \* "Od": a key of two letters, with a capital
    <<"t", "l", "i", "e">>,   \* "tlie": a key
    <<"w", "a", "g">>,        \* "wag": a key of three letters
    <<"t", "h", "e">>,        \* "the": a common word
    <<"1", "a", "w">>,        \* "1aw": a digit before letters
    <<"I", "l", "l", "l">>    \* "Illl": one letter three times in a row
}

DetectTexts ==
    {<< >>} \cup
    UNION { {Join(ts, [k \in 1..(n - 1) |-> <<" ">>]) : ts \in [1..n -> DetectTokens]}
            : n \in 1..MaxWords }

InitDetect ==
    /\ AnalyzerIdle /\ SecondIdle /\ EraIdle /\ CorrectorIdle /\ MetadataIdle
    /\ AnalysisIdle /\ RaceIdle
    /\ d_text \in DetectTexts
    /\ d_results = [common_word_errors |-> EmptyDict, suspicious_patterns |-> EmptyDict]
    /\ d_words = << >>
    /\ d_pc = "idle"

\* words = self.detect_common_errors(content)
CallDetectCommonErrors ==
    /\ d_pc = "idle"
    /\ LET out == detect_common_errors(d_results, d_text) IN
        /\ d_results' = out.results
        /\ d_words' = out.words
    /\ d_pc' = "returned"
    /\ UNCHANGED d_text
    /\ UNCHANGED aggVars /\ UNCHANGED ordVars /\ UNCHANGED eraVars /\ UNCHANGED corVars
    /\ UNCHANGED metaVars /\ UNCHANGED anaVars /\ UNCHANGED raceVars

NextDetect == CallDetectCommonErrors

SpecDetect == InitDetect /\ [][NextDetect]_vars

\* the sum of the counts of a counter
RECURSIVE CounterTotal(_)
CounterTotal(counter) ==
    IF DOMAIN counter = {} THEN 0
    ELSE LET k == CHOOSE x \in DOMAIN counter : TRUE
         IN counter[k] + CounterTotal([x \in DOMAIN counter \ {k} |-> counter[x]])

\* the number of tokens of the lowercased text that are keys of the mapping
KeyTokens(t, mapping) ==
    LET tokens == FindallWords(lower(t))
    IN Cardinality({k \in 1..Len(tokens) : \E entry \in mapping : entry.word = tokens[k]})

\* C23: the word-level count of a text is the number of its lowercase tokens
\* that are keys of the analyzer's word-rule mapping, whatever their length:
\* in OCRErrorAnalyzer.detect_common_errors the counts of common_word_errors
\* add up to the number of tokens that are keys of common_errors ("io", "od"
\* and "al" included), and in ComprehensiveOCRAnalyzer.analyze_text
\* word_level is the number of tokens that are keys of word_error_dict.
C23_EveryKeyTokenCounted ==
    /\ (d_pc = "returned") =>
            CounterTotal(d_results.common_word_errors) = KeyTokens(d_text, common_errors)
    /\ (analysis # None) =>
            analysis.errors_found.word_level = KeyTokens(a_text, word_error_dict)

----------------------------------------------------------------------------
(* Two folds on one analyzer, their statements interleaved.  The loop body  *)
(* of scan_all_files is run by two threads, each on its own document, on    *)
(* the same results.  An augmented assignment d[k] += v is a load of d[k]   *)
(* and, in a later step, a store of the loaded value plus v; nothing in the *)
(* code keeps another thread from running in between.  list.append and      *)
(* set.add take effect in one step.  A bucket of a defaultdict that is      *)
(* missing reads as the default and is created by the store.                *)

Threads == {1, 2}

Cell(group, key, field) == [group |-> group, key |-> key, field |-> field]

\* the value under a cell of the results
ReadCell(r, c) ==
    CASE c.group = "error_patterns" -> r.error_patterns[c.field]
      [] c.group = "metadata" -> r.metadata[c.field]
      [] c.group = "by_directory" -> DictGet(r.by_directory, c.key, DirectoryDefault)[c.field]
      [] c.group = "by_era" -> r.by_era[c.key][c.field]
      [] c.group = "by_resolution" -> DictGet(r.by_resolution, c.key, ResolutionDefault)[c.field]
      [] c.group = "by_newspaper" -> DictGet(r.by_newspaper, c.key, NewspaperDefault)[c.field]
      [] c.group = "by_newspaper_errors" ->
            DictGet(r.by_newspaper, c.key, NewspaperDefault).errors[c.field]

\* the results with v stored under a cell
WriteCell(r, c, v) ==
    CASE c.group = "error_patterns" -> [r EXCEPT !.error_patterns[c.field] = v]
      [] c.group = "metadata" -> [r EXCEPT !.metadata[c.field] = v]
      [] c.group = "by_directory" ->
            [r EXCEPT !.by_directory = DictSet(@, c.key,
                [DictGet(@, c.key, DirectoryDefault) EXCEPT ![c.field] = v])]
      [] c.group = "by_era" -> [r EXCEPT !.by_era[c.key][c.field] = v]
      [] c.group = "by_resolution" ->
            [r EXCEPT !.by_resolution = DictSet(@, c.key,
                [DictGet(@, c.key, ResolutionDefault) EXCEPT ![c.field] = v])]
      [] c.group = "by_newspaper" ->
            [r EXCEPT !.by_newspaper = DictSet(@, c.key,
                [DictGet(@, c.key, NewspaperDefault) EXCEPT ![c.field] = v])]
      [] c.group = "by_newspaper_errors" ->
            [r EXCEPT !.by_newspaper = DictSet(@, c.key,
                [DictGet(@, c.key, NewspaperDefault) EXCEPT !.errors[c.field] = v])]

\* the statement cell += value
AddTo(cell, value) == [op |-> "add", cell |-> cell, value |-> value]

\* the statements of one pass of the loop body for a document that was read,
\* in the order of the code; analyze_text's additions to the counters of
\* results['error_patterns'] come first (one statement per counter)
Statements(doc) ==
    LET era == categorize_era(doc.year)
        dir == doc.parent_directory
        paper == doc.newspaper_code
    IN (IF doc.errors_found.character_level > 0
        THEN <<AddTo(Cell("error_patterns", "", "character_substitutions"),
                     doc.errors_found.character_level)>>
        ELSE << >>)
       \o (IF doc.errors_found.word_level > 0
           THEN <<AddTo(Cell("error_patterns", "", "word_level_errors"),
                        doc.errors_found.word_level)>>
           ELSE << >>)
       \o <<AddTo(Cell("error_patterns", "", "suspicious_patterns"), doc.errors_found.suspicious),
            AddTo(Cell("metadata", "", "total_files"), 1),
            AddTo(Cell("metadata", "", "total_words"), doc.word_count),
            AddTo(Cell("metadata", "", "total_characters"), doc.char_count),
            AddTo(Cell("by_directory", dir, "files"), 1),
            AddTo(Cell("by_directory", dir, "words"), doc.word_count),
            AddTo(Cell("by_directory", dir, "errors"), ErrorSum(doc)),
            [op |-> "era_init", era |-> era],
            [op |-> "append", era |-> era, entry |-> EraFileEntry(doc)],
            AddTo(Cell("by_era", era, "total_words"), doc.word_count),
            AddTo(Cell("by_era", era, "total_errors"), ErrorSum(doc))>>
       \o (IF Truthy(doc.resolution)
           THEN <<AddTo(Cell("by_resolution", ResKey(doc), "files"), 1),
                  AddTo(Cell("by_resolution", ResKey(doc), "words"), doc.word_count),
                  AddTo(Cell("by_resolution", ResKey(doc), "errors"), ErrorSum(doc))>>
           ELSE << >>)
       \o <<AddTo(Cell("by_newspaper", paper, "files"), 1)>>
       \o (IF Truthy(doc.year) THEN <<[op |-> "year_add", paper |-> paper, year |-> doc.year[1]]>>
           ELSE << >>)
       \o <<AddTo(Cell("by_newspaper_errors", paper, "character_level"),
                  doc.errors_found.character_level),
            AddTo(Cell("by_newspaper_errors", paper, "word_level"), doc.errors_found.word_level),
            AddTo(Cell("by_newspaper_errors", paper, "suspicious"), doc.errors_found.suspicious)>>

Added_assigned(loaded, value) == value

\* the value an augmented assignment stores: what it loaded, plus the operand
Added(loaded, value) == loaded + value

\* the first half of a statement: what it reads from the results
Loaded(r, st) ==
    CASE st.op = "add" -> ReadCell(r, st.cell)
      [] st.op = "era_init" -> IF st.era \in DOMAIN r.by_era THEN 1 ELSE 0
      [] OTHER -> 0

\* the second half of a statement: the results it leaves
Stored(r, st, loaded) ==
    CASE st.op = "add" -> WriteCell(r, st.cell, Added(loaded, st.value))
      [] st.op = "era_init" ->
            IF loaded = 0 THEN [r EXCEPT !.by_era = DictSet(@, st.era, EraDefault)] ELSE r
      [] st.op = "append" -> [r EXCEPT !.by_era[st.era].files = Append(@, st.entry)]
      [] st.op = "year_add" ->
            [r EXCEPT !.by_newspaper = DictSet(@, st.paper,
                [DictGet(@, st.paper, NewspaperDefault) EXCEPT !.years = @ \cup {st.year}])]

\* the documents the two threads fold: two of the same buckets, and one that
\* shares only the global totals with them
RaceDocs ==
    {d \in DocPool : d.filename \in {"kea1828012501_ocr.txt", "kea1828020101_ocr.txt",
                                     "hen1850010101_ocr.txt"}}

AtStart == [stmt |-> 1, phase |-> "load"]

\* the thread has run its loop body to the end
FoldDone(w) == w_pc[w].stmt > Len(Statements(w_doc[w]))

\* the thread has begun its loop body and not ended it
InsideFold(w) == w_pc[w] # AtStart /\ ~FoldDone(w)

OtherThread(w) == CHOOSE v \in Threads : v # w

InitRace ==
    /\ AnalyzerIdle /\ SecondIdle /\ EraIdle /\ CorrectorIdle /\ MetadataIdle
    /\ AnalysisIdle /\ DetectIdle
    /\ w_doc \in [Threads -> RaceDocs]
    /\ w_pc = [w \in Threads |-> AtStart]
    /\ w_tmp = [w \in Threads |-> 0]
    /\ running = 0
    /\ preemptions = 0
    /\ first = 0
    /\ overlapped = FALSE

\* the step of w interrupts the other thread inside its loop body
Preempts(w) == running = OtherThread(w) /\ InsideFold(running)

\* the scheduler lets thread w take a step
Scheduled(w) ==
    /\ Preempts(w) => preemptions < MaxPreemptions
    /\ running' = w
    /\ preemptions' = IF Preempts(w) THEN preemptions + 1 ELSE preemptions

\* what every step of a thread records
RaceHistory(w) ==
    /\ first' = IF first = 0 THEN w ELSE first
    /\ overlapped' = (overlapped \/ InsideFold(OtherThread(w)))

\* a thread runs the first half of its current statement
RaceLoad(w) ==
    /\ ~FoldDone(w)
    /\ w_pc[w].phase = "load"
    /\ w_tmp' = [w_tmp EXCEPT ![w] = Loaded(results, Statements(w_doc[w])[w_pc[w].stmt])]
    /\ w_pc' = [w_pc EXCEPT ![w].phase = "store"]
    /\ Scheduled(w)
    /\ RaceHistory(w)
    /\ UNCHANGED <<w_doc, pc, files, results, folded, batch, skipped>>
    /\ UNCHANGED ordVars /\ UNCHANGED eraVars /\ UNCHANGED corVars
    /\ UNCHANGED metaVars /\ UNCHANGED anaVars /\ UNCHANGED detVars

\* a thread runs the second half of its current statement (the loaded value
\* is not used again)
RaceStore(w) ==
    /\ ~FoldDone(w)
    /\ w_pc[w].phase = "store"
    /\ results' = Stored(results, Statements(w_doc[w])[w_pc[w].stmt], w_tmp[w])
    /\ w_pc' = [w_pc EXCEPT ![w] = [stmt |-> @.stmt + 1, phase |-> "load"]]
    /\ Scheduled(w)
    /\ RaceHistory(w)
    /\ w_tmp' = [w_tmp EXCEPT ![w] = 0]
    /\ UNCHANGED <<w_doc, pc, files, folded, batch, skipped>>
    /\ UNCHANGED ordVars /\ UNCHANGED eraVars /\ UNCHANGED corVars
    /\ UNCHANGED metaVars /\ UNCHANGED anaVars /\ UNCHANGED detVars

NextRace == \E w \in Threads : RaceLoad(w) \/ RaceStore(w)

SpecRace == InitRace /\ [][NextRace]_vars

\* both threads have run their loop body to the end
BothFolded == w_pc # << >> /\ \A w \in Threads : FoldDone(w)

====
